---- MODULE Spec2Model ----
(***************************************************************************)
(* rsonl-db: an append-only JSONL key/value store.  The model covers the   *)
(* in-memory storage with its journal (storage.rs), the persistence loop   *)
(* with idle writes and compaction (persistence.rs), recovery and the      *)
(* lifecycle (db.rs, lib.rs) and the lock directory (lockfile.rs).         *)
(*                                                                         *)
(* Spec     : one process, its storage, journal, files and persistence     *)
(*            loop; the caller's mutations interleave with the loop's      *)
(*            steps wherever the loop does not hold the storage mutex.     *)
(* LockSpec : several processes competing for the lock directory of one    *)
(*            store, with a clock.                                         *)
(* OrderSpec: one store that is opened and then only mutated, over three   *)
(*            keys, for the order of keys().                               *)
(* The further specifications (LifecycleSpec, ApiSpec, FailSpec, ParseSpec,*)
(* IndexSpec, RoundTripSpec, SizeSpec, StarveSpec, ReleaseSpec, GuardSpec, *)
(* ThrottleSpec, CloseSpec) share these variables and are introduced in    *)
(* their sections.                                                         *)
(***************************************************************************)
EXTENDS Integers, Sequences, FiniteSets, TLC

\* ------------------------------------------------------------- bounds
\* The longest log, in records, the caller's mutations may lead to.
MaxLog == 2
\* "mpsc::channel(32)": the capacity of the command channel.
ChannelCapacity == 32
\* Last instant of the clock of LockSpec.
MaxTime == 5
\* Lockfile::stale_interval_ms, in ticks
StaleInterval == 3

Keys == {"a", "b"}
\* The (key, value) pairs the caller sets.
SetInputs == {<<"a", 1>>, <<"a", 2>>, <<"b", 1>>}

\* ---------------------------------------------------------- sequences
Range(s) == {s[i] : i \in 1..Len(s)}

RECURSIVE Filter(_, _)
\* The elements of s that are in the set S, in the order of s.
Filter(s, S) ==
  IF s = <<>> THEN <<>>
  ELSE IF Head(s) \in S THEN <<Head(s)>> \o Filter(Tail(s), S)
       ELSE Filter(Tail(s), S)

\* ------------------------------------------------- IndexMap<String, DBEntry>
\* An IndexMap is a sequence of [k, v] pairs with distinct keys.
Slot(k, v) == [k |-> k, v |-> v]

get_index_of(es, key) ==
  IF \E i \in 1..Len(es) : es[i].k = key
  THEN CHOOSE i \in 1..Len(es) : es[i].k = key
  ELSE 0

contains_key(es, key) == get_index_of(es, key) # 0

\* IndexMap::insert: an existing key keeps its slot, a new key is appended.
im_insert(es, key, value) ==
  IF contains_key(es, key)
  THEN [es EXCEPT ![get_index_of(es, key)] = Slot(key, value)]
  ELSE Append(es, Slot(key, value))

\* IndexMap::remove is swap_remove: the last slot is moved into the gap.
im_remove(es, key) ==
  LET i == get_index_of(es, key)
      n == Len(es)
  IN IF i = 0 THEN es
     ELSE IF i = n THEN SubSeq(es, 1, n - 1)
     ELSE [SubSeq(es, 1, n - 1) EXCEPT ![i] = es[n]]

\* keys(): the keys in slot order.
all_keys(es) == [i \in 1..Len(es) |-> es[i].k]

\* The mapping an IndexMap stands for (IndexMap equality ignores the order).
AsMap(es) == {<<es[i].k, es[i].v>> : i \in 1..Len(es)}

\* --------------------------------------------------------- record codec
\* One line of a log: an upsert {"k":k,"v":v}, a delete {"k":k}, or the
\* empty string.
Line(t, k, v) == [t |-> t, k |-> k, v |-> v]
EmptyLine == Line("E", "", 0)

format_line(key, val) == Line("U", key, val)

Set(k) == [t |-> "Set", k |-> k]
Delete(k) == [t |-> "Delete", k |-> k]
Clear == [t |-> "Clear", k |-> ""]

\* Option<String> is a sequence of no or one line, so that filter_map is
\* concatenation.
journal_entry_to_string(es, j) ==
  IF j.t = "Set"
  THEN IF contains_key(es, j.k)
       THEN <<Line("U", j.k, es[get_index_of(es, j.k)].v)>>
       ELSE <<>>
  ELSE IF j.t = "Delete" THEN <<Line("D", j.k, 0)>>
  ELSE <<EmptyLine>>

\* A line that is text but no record, and a line whose bytes are not UTF-8.
BadLine == Line("X", "", 0)
NonUtf8Line == Line("B", "", 0)

RECURSIVE parse_from(_, _, _, _)
\* The while loop of parse_entries from line i on.  "lines.next_line().await?"
\* fails on bytes that are not UTF-8, whatever ignore_read_errors says.
parse_from(data, i, es, ignore_read_errors) ==
  IF i > Len(data) THEN [err |-> 0, kind |-> "none", entries |-> es]
  ELSE IF data[i] = NonUtf8Line THEN [err |-> i, kind |-> "Io", entries |-> <<>>]
  ELSE IF data[i].t = "U"
       THEN parse_from(data, i + 1, im_insert(es, data[i].k, data[i].v),
                       ignore_read_errors)
  ELSE IF data[i].t = "D"
       THEN parse_from(data, i + 1, im_remove(es, data[i].k), ignore_read_errors)
  ELSE IF ignore_read_errors
       THEN parse_from(data, i + 1, es, ignore_read_errors)
  ELSE [err |-> i, kind |-> "Parse", entries |-> <<>>]

\* parse_entries: replay of a log in file order; err is the 1-based number
\* of the first invalid line, 0 when there is none.
parse_entries(data, ignore_read_errors) ==
  parse_from(data, 1, <<>>, ignore_read_errors)

\* ------------------------------------------------------------------ Index
\* Values are numbered.  The numbers up to 9 stand for primitives; 10 and 11
\* stand for the objects {"type":"x"} and {"type":"y"}, 12 for an object
\* without that field.
IndexPaths == {"/type"}
IndexStrings == {"x", "y"}

\* val.pointer(path).map_or(None, |v| v.as_str())
pointer(path, val) ==
  IF path = "/type" /\ val = 10 THEN "x"
  ELSE IF path = "/type" /\ val = 11 THEN "y"
  ELSE "none"

\* format!("{}={}", path, index_val)
index_key(path, s) == <<path, s>>

\* Index::new, Index::clear: no bucket.
index_clear == <<>>

\* Index::add_one
add_one(ix, ik, key) ==
  [j \in DOMAIN ix \cup {ik} |->
     IF j = ik THEN (IF ik \in DOMAIN ix THEN ix[ik] ELSE {}) \cup {key} ELSE ix[j]]

\* The index keys of a value: one for every path that resolves to a string.
index_keys(val) ==
  {index_key(p, pointer(p, val)) : p \in {q \in IndexPaths : pointer(q, val) # "none"}}

RECURSIVE add_many(_, _, _)
\* Index::add_many
add_many(ix, key, iks) ==
  IF iks = {} THEN ix
  ELSE LET ik == CHOOSE x \in iks : TRUE
       IN add_many(add_one(ix, ik, key), key, iks \ {ik})

\* Index::add_value_checked
add_value_checked(ix, key, val) == add_many(ix, key, index_keys(val))

RECURSIVE add_entries_checked(_, _)
\* Index::add_entries_checked
add_entries_checked(ix, es) ==
  IF es = <<>> THEN ix
  ELSE add_entries_checked(add_value_checked(ix, Head(es).k, Head(es).v), Tail(es))

\* Index::remove
index_remove(ix, key) == [j \in DOMAIN ix |-> ix[j] \ {key}]

\* Index::get_keys
get_keys(ix, ik) == IF ik \in DOMAIN ix THEN ix[ik] ELSE {}

\* ---------------------------------------------------------------- Storage
\* Storage is [entries, journal].
Storage(es, jn) == [entries |-> es, journal |-> jn]

retain_other(jn, key) == SelectSeq(jn, LAMBDA e : ~(e.t \in {"Set", "Delete"} /\ e.k = key))

insert_no_dedup(st, key, value) ==
  Storage(im_insert(st.entries, key, value), Append(st.journal, Set(key)))

insert(st, key, value) ==
  Storage(im_insert(st.entries, key, value),
          Append(retain_other(st.journal, key), Set(key)))

\* A delete that removes the key from the map and leaves the journal alone.
remove_unjournaled(st, key) == Storage(im_remove(st.entries, key), st.journal)

remove(st, key) ==
  Storage(im_remove(st.entries, key),
          Append(retain_other(st.journal, key), Delete(key)))

\* A clear that keeps the pending entries in front of the Clear.
clear_appended(st) == Storage(<<>>, Append(st.journal, Clear))

\* SharedStorage::clear: the map is drained, the journal emptied and the
\* Clear pushed.
clear(st) == Storage(<<>>, <<Clear>>)

RECURSIVE render_journal(_, _)
render_journal(es, jn) ==
  IF jn = <<>> THEN <<>>
  ELSE journal_entry_to_string(es, Head(jn)) \o render_journal(es, Tail(jn))

\* drain_journal: the lines of the journal, resolved against the current
\* map; the caller of this operator empties the journal.
drain_journal(st) == render_journal(st.entries, st.journal)


\* ------------------------------------------------------------------ files
File(ex, data) == [ex |-> ex, data |-> data]
NoFile == File(FALSE, <<>>)
Files(m, b, d) == [main |-> m, bak |-> b, dump |-> d]

\* "meta.is_file() && meta.len() > 0"
file_ok(f) == f.ex /\ Len(f.data) > 0

\* A recovery that prefers the dump to the backup.
try_recover_dump_first(fs) ==
  IF file_ok(fs.main) THEN Files(fs.main, NoFile, NoFile)
  ELSE IF file_ok(fs.dump) THEN Files(fs.dump, NoFile, NoFile)
  ELSE IF file_ok(fs.bak) THEN Files(fs.bak, NoFile, NoFile)
  ELSE fs

\* try_recover_db_files: the file set after recovery.
try_recover_db_files(fs) ==
  IF file_ok(fs.main) THEN Files(fs.main, NoFile, NoFile)
  ELSE IF file_ok(fs.bak) THEN Files(fs.bak, NoFile, NoFile)
  ELSE IF file_ok(fs.dump) THEN Files(fs.dump, NoFile, NoFile)
  ELSE fs

\* OpenOptions::new().create(true).read(true).write(true).open(..)
open_create(f) == IF f.ex THEN f ELSE File(TRUE, <<>>)

\* The writer's state while it appends lines: the file's records and the
\* two counters of the persistence loop.
Written(data, usz, chg) == [data |-> data, usz |-> usz, chg |-> chg]

\* A writer that skips the empty line instead of truncating the file.
write_lines_untruncated(w, strs) ==
  LET kept == SelectSeq(strs, LAMBDA str : str # EmptyLine)
  IN Written(w.data \o kept, w.usz + Len(kept), w.chg + Len(kept))

RECURSIVE write_lines(_, _)
\* The loop body shared by the idle write and step 1 of the compaction: the
\* empty line truncates the file, any other line is appended.
write_lines(w, strs) ==
  IF strs = <<>> THEN w
  ELSE IF Head(strs) = EmptyLine
       THEN write_lines(Written(<<>>, 0, 0), Tail(strs))
       ELSE write_lines(Written(Append(w.data, Head(strs)), w.usz + 1, w.chg + 1),
                        Tail(strs))

\* "journal.iter().skip(journal_len)"
skip(strs, n) == IF n >= Len(strs) THEN <<>> ELSE SubSeq(strs, n + 1, Len(strs))

dump_render_reversed(es) == [i \in 1..Len(es) |-> format_line(es[Len(es) + 1 - i].k, es[Len(es) + 1 - i].v)]

\* The render of dump(): one upsert line per entry, in map order.
dump_render(es) == [i \in 1..Len(es) |-> format_line(es[i].k, es[i].v)]

\* ---------------------------------------------------------------- options
\* DBOptions: autoCompress (onOpen, sizeFactor, sizeFactorMinimumSize,
\* intervalMs, intervalMinChanges) and throttleFS (intervalMs,
\* maxBufferedCommands); ignoreReadErrors and autoCompress.onClose are off
\* unless a specification sets them.
Opts(oo, sf, sfm, ims, imc, tms, mbc) ==
  [on_open |-> oo, size_factor |-> sf, size_factor_min_size |-> sfm,
   interval_ms |-> ims, interval_min_changes |-> imc, throttle_ms |-> tms,
   max_buffered_commands |-> mbc, ignore_read_errors |-> FALSE,
   on_close |-> FALSE]

\* usize::MAX stands for "unbounded".
Unbounded == 1000

DefaultOptions == Opts(FALSE, 0, 0, 0, 1, 0, Unbounded)
\* Compress on open and when the log holds at least 2 records and twice
\* the size of the map.
AutoOptions == Opts(TRUE, 2, 2, 0, 1, 0, Unbounded)
OptionSets == {DefaultOptions, AutoOptions}
\* size_factor = 2, size_factor_min_size = 4, throttle interval 0.
SizeOptions == Opts(FALSE, 2, 4, 0, 1, 0, Unbounded)
\* Writes at least 2 ticks apart, unless more than one command is buffered.
ThrottledOptions == Opts(FALSE, 0, 0, 0, 1, 2, 1)

\* A size check that never asks for a compaction.
never_by_size(o, size, usz) == FALSE

need_to_compress_by_size(o, size, usz) ==
  IF o.size_factor = 0 THEN FALSE
  ELSE usz >= o.size_factor_min_size /\ usz >= o.size_factor * size

\* elapsed: whether more than interval_ms have passed since last_compress.
need_to_compress_by_time(o, elapsed, chg) ==
  IF o.interval_ms = 0 THEN FALSE
  ELSE chg >= o.interval_min_changes /\ elapsed


\* ------------------------------------------------------------------ state
VARIABLES
  r,                      \* the facade's DB: "Closed", "Opened", "HalfClosed"
  opts,                   \* DBOptions
  entries,                \* Storage.entries
  journal,                \* Storage.journal
  main, bak, dumpf,       \* the files <name>, <name>.bak, <name>.dump
  pc,                     \* where the persistence loop stands
  rx,                     \* the command channel
  uncompressed_size, changes_since_compress, just_opened, last_write,
  done,                   \* the Notify of the command in progress, 0 for None
  dump_buf, journal_len,  \* dump(): the render and the journal length
  is_closing,
  compress_promise,       \* the Notify of the pending compress(), 0 for None
  \* history, read by the properties only
  start_map,              \* the map when the running compaction started
  mut_during,             \* a mutation was accepted since it started
  late_mut,               \* a mutation was accepted after close was called
  crash_pc,               \* where the loop stood at the last crash
  last_op,                \* what the loop did last to the files
  touched, cleared,       \* the round of mutations up to the last or next drain:
  squashed,               \* keys touched, a clear, a pending entry replaced
  \* the lock directory and the processes of LockSpec
  now, lockdir, proc,
  \* the calls of dump() and compress() in flight and the file each caller's
  \* dump() writes
  call, udump,
  served,                 \* the Notify ids the loop has signalled
  notifies,               \* the number of Notify objects created so far
  script,                 \* the operations a scripted caller has still to issue
  index                   \* Index.map: the keys of each bucket

store_vars == <<r, opts, entries, journal, main, bak, dumpf, pc, rx,
                uncompressed_size, changes_since_compress, just_opened, last_write, done,
                dump_buf, journal_len, is_closing, compress_promise>>
hist_vars == <<start_map, mut_during, late_mut, crash_pc, last_op, touched,
               cleared, squashed>>
lock_vars == <<now, lockdir, proc>>
api_vars == <<call, udump, served, notifies, script>>
vars == <<store_vars, hist_vars, lock_vars, api_vars, index>>

\* The steps of a compaction after step 1 (drain, flush, sync, close writer).
CompactionPcs == {"c_drained", "c_snap", "c_dumped"}

\* A receive that takes the newest command of the channel.
recv_newest(q) == [cmd |-> q[Len(q)], rest |-> SubSeq(q, 1, Len(q) - 1)]

\* rx.recv(): the oldest command of the channel, and the channel after it.
recv(q) == [cmd |-> Head(q), rest |-> Tail(q)]

StopCmd == [cmd |-> "Stop", done |-> 0]
CompressCmd(d) == [cmd |-> "Compress", done |-> d]

\* No process: the state of the memory of a process that is not running.
NoProcess ==
  /\ entries' = <<>> /\ journal' = <<>>
  /\ pc' = "none" /\ rx' = <<>>
  /\ uncompressed_size' = 0 /\ changes_since_compress' = 0
  /\ just_opened' = FALSE /\ done' = 0 /\ last_write' = 0
  /\ dump_buf' = <<>> /\ journal_len' = 0
  /\ is_closing' = FALSE /\ compress_promise' = 0

StoreInit ==
  /\ r = "Closed" /\ opts \in OptionSets
  /\ entries = <<>> /\ journal = <<>>
  /\ main = NoFile /\ bak = NoFile /\ dumpf = NoFile
  /\ pc = "none" /\ rx = <<>>
  /\ uncompressed_size = 0 /\ changes_since_compress = 0
  /\ just_opened = FALSE /\ done = 0 /\ last_write = 0
  /\ dump_buf = <<>> /\ journal_len = 0
  /\ is_closing = FALSE /\ compress_promise = 0
  /\ start_map = {} /\ mut_during = FALSE /\ late_mut = FALSE
  /\ crash_pc = "none" /\ last_op = "none"
  /\ touched = {} /\ cleared = FALSE /\ squashed = FALSE

\* ------------------------------------------------------------ the facade
\* JsonlDB::open -> RsonlDB<Closed>::open.  (The lock is taken first; the
\* one process of Spec finds it free or stale, see LockSpec.)
Open ==
  /\ r = "Closed"
  /\ LET fs == try_recover_db_files(Files(main, bak, dumpf))
         f == open_create(fs.main)
         parsed == parse_entries(f.data, opts.ignore_read_errors)
     IN /\ main' = f /\ bak' = fs.bak /\ dumpf' = fs.dump
        /\ IF parsed.err # 0
           THEN UNCHANGED <<r, entries, journal, pc, rx, uncompressed_size,
                            changes_since_compress, just_opened, last_write, done, dump_buf,
                            journal_len, is_closing, compress_promise>>
           ELSE /\ r' = "Opened"
                /\ entries' = parsed.entries /\ journal' = <<>>
                /\ pc' = "start" /\ rx' = <<>>
                /\ is_closing' = FALSE /\ compress_promise' = 0
                /\ UNCHANGED <<uncompressed_size, changes_since_compress,
                               just_opened, last_write, done, dump_buf, journal_len>>
  /\ late_mut' = FALSE /\ touched' = {} /\ cleared' = FALSE /\ squashed' = FALSE
  /\ last_op' = "open"
  /\ UNCHANGED <<opts, start_map, mut_during, crash_pc, lock_vars, api_vars>>
  /\ index' = IF r' = "Opened" THEN add_entries_checked(index_clear, entries') ELSE index

\* What a mutation leaves in the history.
\* A round of mutations starts with the first one after a drain.
Mutated(ks, clr) ==
  /\ mut_during' = (mut_during \/ pc \in CompactionPcs)
  /\ late_mut' = (late_mut \/ is_closing)
  /\ touched' = (IF clr THEN {} ELSE IF journal = <<>> THEN ks ELSE touched \cup ks)
  /\ cleared' = (clr \/ (journal # <<>> /\ cleared))
  /\ squashed' = (journal # <<>> /\ (squashed \/ clr \/ \E i \in 1..Len(journal) : journal[i].k \in ks))
  /\ UNCHANGED <<start_map, crash_pc, last_op>>

Max(S) == CHOOSE x \in S : \A y \in S : y <= x

\* The longest log a drain of the journal jn could leave behind.
LogSize(jn) ==
  Max({Len(main.data), Len(bak.data), Len(dumpf.data), Len(dump_buf)}) + Len(jn)

\* The model stops the caller when a mutation could make a log longer than
\* MaxLog.
WithinLog == LogSize(journal') <= MaxLog

\* JsonlDB::set_primitive -> set_native -> SharedStorage::insert
set_native(key, value) ==
  /\ r = "Opened"
  /\ LET st == insert(Storage(entries, journal), key, value)
     IN entries' = st.entries /\ journal' = st.journal
  /\ Mutated({key}, FALSE)
  /\ UNCHANGED <<r, opts, main, bak, dumpf, pc, rx, uncompressed_size,
                 changes_since_compress, just_opened, last_write, done, dump_buf, journal_len,
                 is_closing, compress_promise, lock_vars>>
  /\ index' = add_value_checked(index, key, value)

\* JsonlDB::set_primitive on the store alone.
SetCall(key, value) == set_native(key, value) /\ UNCHANGED api_vars

\* A has() that finds every key.
has_any(es, key) == TRUE

\* RsonlDB<Opened>::has
has(es, key) == contains_key(es, key)

\* JsonlDB::delete -> RsonlDB<Opened>::delete -> SharedStorage::remove
delete(key) ==
  /\ r = "Opened"
  /\ IF ~has(entries, key)
     THEN UNCHANGED <<entries, journal, hist_vars, index>>
     ELSE /\ LET st == remove(Storage(entries, journal), key)
             IN entries' = st.entries /\ journal' = st.journal
          /\ Mutated({key}, FALSE)
          /\ index' = index_remove(index, key)
  /\ UNCHANGED <<r, opts, main, bak, dumpf, pc, rx, uncompressed_size,
                 changes_since_compress, just_opened, last_write, done, dump_buf, journal_len,
                 is_closing, compress_promise, lock_vars>>

\* JsonlDB::delete on the store alone.
DeleteCall(key) == delete(key) /\ UNCHANGED api_vars

\* JsonlDB::clear -> RsonlDB<Opened>::clear -> SharedStorage::clear
clear_all ==
  /\ r = "Opened"
  /\ LET st == clear(Storage(entries, journal))
     IN entries' = st.entries /\ journal' = st.journal
  /\ Mutated({}, TRUE)
  /\ UNCHANGED <<r, opts, main, bak, dumpf, pc, rx, uncompressed_size,
                 changes_since_compress, just_opened, last_write, done, dump_buf, journal_len,
                 is_closing, compress_promise, lock_vars>>
  /\ index' = index_clear

\* JsonlDB::clear on the store alone.
ClearCall == clear_all /\ UNCHANGED api_vars

\* RsonlDB<Opened>::compress: the promise is stored and the command sent;
\* the caller then waits for the notification (see SwapAndReopen).
CompressCall ==
  /\ r = "Opened" /\ ~is_closing /\ compress_promise = 0
  /\ pc # "exited" /\ Len(rx) < ChannelCapacity
  /\ compress_promise' = 1
  /\ rx' = Append(rx, CompressCmd(1))
  /\ UNCHANGED <<r, opts, entries, journal, main, bak, dumpf, pc, uncompressed_size,
                 changes_since_compress, just_opened, last_write, done, dump_buf, journal_len,
                 is_closing, hist_vars, lock_vars, index, api_vars>>

\* The loop has dropped its receiver: a send on the channel fails.
ChannelClosed == pc \in {"exited", "failed"}

\* JsonlDB::half_close -> RsonlDB<Opened>::close without
\* auto_compress.on_close: is_closing, then Stop is sent.
CloseStart ==
  /\ r = "Opened" /\ ~opts.on_close
  /\ ~is_closing /\ ~ChannelClosed /\ Len(rx) < ChannelCapacity
  /\ is_closing' = TRUE
  /\ rx' = Append(rx, StopCmd)
  /\ UNCHANGED <<r, opts, entries, journal, main, bak, dumpf, pc, uncompressed_size,
                 changes_since_compress, just_opened, last_write, done, dump_buf, journal_len,
                 compress_promise, hist_vars, lock_vars, index, api_vars>>

\* stop_and_join returns once the loop has exited: Opened -> HalfClosed.
CloseJoin ==
  /\ r = "Opened" /\ is_closing /\ pc = "exited"
  /\ r' = "HalfClosed"
  /\ UNCHANGED <<opts, entries, journal, main, bak, dumpf, pc, rx, uncompressed_size,
                 changes_since_compress, just_opened, last_write, done, dump_buf, journal_len,
                 is_closing, compress_promise, hist_vars, lock_vars, index, api_vars>>

\* JsonlDB::close -> RsonlDB<HalfClosed>::close: the storage is dropped.
CloseFinal ==
  /\ r = "HalfClosed"
  /\ r' = "Closed"
  /\ NoProcess
  /\ start_map' = {} /\ mut_during' = FALSE /\ late_mut' = FALSE
  /\ crash_pc' = "none" /\ last_op' = "none"
  /\ touched' = {} /\ cleared' = FALSE /\ squashed' = FALSE
  /\ UNCHANGED <<opts, main, bak, dumpf, lock_vars, api_vars>>
  /\ index' = index_clear

\* The process dies: its memory is gone, the files stay as they are.
Crash ==
  /\ r = "Opened" /\ pc \notin {"none", "exited"}
  /\ r' = "Closed"
  /\ NoProcess
  /\ crash_pc' = pc
  /\ late_mut' = FALSE /\ last_op' = "none"
  /\ touched' = {} /\ cleared' = FALSE /\ squashed' = FALSE
  /\ UNCHANGED <<opts, main, bak, dumpf, start_map, mut_during, lock_vars, api_vars>>
  /\ index' = index_clear


\* --------------------------------------------------- the persistence loop
\* persistence_thread before its loop: the counters are initialised.
LoopStart ==
  /\ r = "Opened" /\ pc = "start"
  /\ uncompressed_size' = Len(entries)
  /\ changes_since_compress' = 0
  /\ just_opened' = TRUE
  /\ last_write' = now
  /\ pc' = "top"
  /\ crash_pc' = "none" /\ start_map' = {} /\ mut_during' = FALSE
  /\ UNCHANGED <<r, opts, entries, journal, main, bak, dumpf, rx, done, dump_buf,
                 journal_len, is_closing, compress_promise, late_mut, last_op,
                 touched, cleared, squashed, lock_vars, index, api_vars>>

\* "Figure out what to do": a compaction is due.
compress_due(elapsed) ==
  \/ (just_opened /\ opts.on_open)
  \/ need_to_compress_by_size(opts, Len(entries), uncompressed_size)
  \/ need_to_compress_by_time(opts, elapsed, changes_since_compress)

\* The write of a drained journal to the live log, with the counters.
drain_to_main ==
  write_lines(Written(main.data, uncompressed_size, changes_since_compress),
              drain_journal(Storage(entries, journal)))

\* Idle, timeout or Stop: the throttled write of the journal.
\* elapsed_c: more than interval_ms since the last compaction;
\* elapsed_w: at least throttle_fs.interval_ms since the last write.
\* A decision that writes whenever the journal holds an entry.
write_unthrottled(stop, elapsed_w) == Len(journal) > 0

should_write(stop, elapsed_w) ==
  Len(journal) > 0
    /\ (stop \/ (opts.throttle_ms = 0 \/ elapsed_w)
             \/ Len(journal) > opts.max_buffered_commands)

IdleOrStop(stop, elapsed_w) ==
  /\ IF should_write(stop, elapsed_w)
     THEN /\ main' = File(TRUE, drain_to_main.data)
          /\ uncompressed_size' = drain_to_main.usz
          /\ changes_since_compress' = drain_to_main.chg
          /\ journal' = <<>>
          /\ last_op' = "write"
          /\ last_write' = now
     ELSE UNCHANGED <<main, uncompressed_size, changes_since_compress, journal,
                      last_op, last_write>>
  /\ pc' = IF stop THEN "exited" ELSE "top"
  /\ UNCHANGED <<r, opts, entries, bak, dumpf, done, dump_buf, journal_len,
                 is_closing, compress_promise, start_map, mut_during,
                 late_mut, crash_pc, touched, cleared, squashed, lock_vars, index, api_vars>>

\* Compaction step 1: drain the journal into the live log, flush, sync and
\* close the writer.
CompressDrain(d) ==
  /\ main' = File(TRUE, drain_to_main.data)
  /\ uncompressed_size' = drain_to_main.usz
  /\ changes_since_compress' = drain_to_main.chg
  /\ journal' = <<>>
  /\ done' = d
  /\ pc' = "c_drained"
  /\ start_map' = AsMap(entries) /\ mut_during' = FALSE
  /\ last_op' = IF last_op = "compress" /\ journal = <<>>
                 THEN (IF mut_during THEN "recompress_mut" ELSE "recompress")
                 ELSE "write"
  /\ UNCHANGED <<r, opts, entries, bak, dumpf, dump_buf, journal_len, is_closing,
                 last_write, compress_promise, late_mut, crash_pc, touched, cleared, squashed,
                 lock_vars, index, api_vars>>

\* One iteration whose command is the synthetic Compress { done: None }.
LoopAutoCompress ==
  /\ r = "Opened" /\ pc = "top"
  /\ \E elapsed_c \in BOOLEAN :
       /\ compress_due(elapsed_c)
       /\ CompressDrain(0)
  /\ just_opened' = FALSE
  /\ UNCHANGED rx

\* One iteration that waits on the channel and runs into the idle timeout.
LoopTimeout ==
  /\ r = "Opened" /\ pc = "top" /\ rx = <<>>
  /\ \E elapsed_c \in BOOLEAN, elapsed_w \in BOOLEAN :
       /\ ~compress_due(elapsed_c)
       /\ IdleOrStop(FALSE, elapsed_w)
  /\ just_opened' = FALSE
  /\ UNCHANGED rx

\* One iteration that receives Stop.
LoopStop ==
  /\ r = "Opened" /\ pc = "top" /\ rx # <<>> /\ recv(rx).cmd.cmd = "Stop"
  /\ \E elapsed_c \in BOOLEAN :
       /\ ~compress_due(elapsed_c)
       /\ IdleOrStop(TRUE, TRUE)
  /\ just_opened' = FALSE
  /\ rx' = recv(rx).rest

\* One iteration that receives Compress { done }.
LoopCompress ==
  /\ r = "Opened" /\ pc = "top" /\ rx # <<>> /\ recv(rx).cmd.cmd = "Compress"
  /\ \E elapsed_c \in BOOLEAN :
       /\ ~compress_due(elapsed_c)
       /\ CompressDrain(recv(rx).cmd.done)
  /\ just_opened' = FALSE
  /\ rx' = recv(rx).rest

\* A dump that drains the journal whatever its flag.
journal_drained(jn, drain) == <<>>

\* dump(): "if drain_journal { storage.drain_journal() } else
\* { storage.clone_journal() }": the journal that is left in the storage.
journal_after_dump(jn, drain) == IF drain THEN <<>> ELSE jn

\* dump(): the dump file is created and truncated; under the storage lock
\* the map is rendered and the length of the journal is remembered.
DumpSnapshot ==
  /\ r = "Opened" /\ pc = "c_drained"
  /\ dumpf' = File(TRUE, <<>>)
  /\ dump_buf' = dump_render(entries)
  /\ journal_len' = Len(journal)
  /\ pc' = "c_snap"
  /\ UNCHANGED <<r, opts, entries, journal, main, bak, rx, uncompressed_size,
                 changes_since_compress, just_opened, last_write, done, is_closing,
                 compress_promise, hist_vars, lock_vars, index, api_vars>>

\* dump(): "writer.write_all(dump)" reaches the file record by record.
DumpWrite ==
  /\ r = "Opened" /\ pc = "c_snap" /\ Len(dumpf.data) < Len(dump_buf)
  /\ dumpf' = File(TRUE, Append(dumpf.data, dump_buf[Len(dumpf.data) + 1]))
  /\ UNCHANGED <<r, opts, entries, journal, main, bak, pc, rx, uncompressed_size,
                 changes_since_compress, just_opened, last_write, done, dump_buf, journal_len,
                 is_closing, compress_promise, hist_vars, lock_vars, index, api_vars>>

\* dump(.., true): the journal is drained, its first journal_len lines are
\* skipped and the rest is written after the render; flush, sync and the
\* fsync of the directory.
DumpJournal ==
  /\ r = "Opened" /\ pc = "c_snap" /\ Len(dumpf.data) = Len(dump_buf)
  /\ LET strs == skip(drain_journal(Storage(entries, journal)), journal_len)
     IN dumpf' = File(TRUE, write_lines(Written(dumpf.data, 0, 0), strs).data)
  /\ journal' = journal_after_dump(journal, TRUE)
  /\ dump_buf' = <<>> /\ journal_len' = 0
  /\ pc' = "c_dumped"
  /\ UNCHANGED <<r, opts, entries, main, bak, rx, uncompressed_size,
                 changes_since_compress, just_opened, last_write, done, is_closing,
                 compress_promise, hist_vars, lock_vars, index, api_vars>>

\* A step 4 that leaves an empty backup behind.
rename_truncated(fs) == Files(NoFile, File(TRUE, <<>>), fs.dump)

\* Steps 4 and 5 of the compaction, on the file set.
rename_to_bak(fs) == Files(NoFile, fs.main, fs.dump)
rename_dump(fs) == Files(fs.dump, fs.bak, NoFile)
\* A step 5 that leaves the backup in place.
keep_bak(fs) == fs

remove_bak(fs) == Files(fs.main, NoFile, fs.dump)

\* The file set after the first n of: rename to .bak, rename of the dump,
\* removal of the backup.
swap_stage(fs, n) ==
  IF n = 0 THEN fs
  ELSE IF n = 1 THEN rename_to_bak(fs)
  ELSE IF n = 2 THEN rename_dump(rename_to_bak(fs))
  ELSE remove_bak(rename_dump(rename_to_bak(fs)))

\* The renames, the removal of the backup, the reopening of the live log,
\* the reset of the statistics and the notification of the waiter, whose
\* compress() returns and unsets the promise.  Only a crash can see the
\* file set between these steps (CrashInSwap), so they are one step here.
CompactionSwap ==
  /\ r = "Opened" /\ pc = "c_dumped"
  /\ LET fs == swap_stage(Files(main, bak, dumpf), 3)
     IN main' = open_create(fs.main) /\ bak' = fs.bak /\ dumpf' = fs.dump
  /\ uncompressed_size' = Len(entries)
  /\ changes_since_compress' = 0
  /\ done' = 0
  /\ pc' = "top"
  /\ start_map' = {} /\ last_op' = "compress"
  /\ UNCHANGED <<r, opts, entries, journal, rx, just_opened, last_write, dump_buf,
                 journal_len, is_closing, mut_during, late_mut, crash_pc,
                 touched, cleared, squashed, lock_vars, index>>

\* The end of a compaction with its one caller: the notified compress()
\* returns and unsets the promise.
SwapAndReopen ==
  /\ CompactionSwap
  /\ compress_promise' = IF done # 0 THEN 0 ELSE compress_promise
  /\ UNCHANGED api_vars

\* The process dies after the first n steps of the swap.
CrashInSwap(n) ==
  /\ r = "Opened" /\ pc = "c_dumped"
  /\ LET fs == swap_stage(Files(main, bak, dumpf), n)
     IN main' = fs.main /\ bak' = fs.bak /\ dumpf' = fs.dump
  /\ r' = "Closed"
  /\ NoProcess
  /\ crash_pc' = IF n = 1 THEN "c_ren1" ELSE IF n = 2 THEN "c_ren2" ELSE "c_rm"
  /\ late_mut' = FALSE /\ last_op' = "none"
  /\ touched' = {} /\ cleared' = FALSE /\ squashed' = FALSE
  /\ UNCHANGED <<opts, start_map, mut_during, lock_vars, api_vars>>
  /\ index' = index_clear

Next ==
  \/ Open
  \/ \E kv \in SetInputs : SetCall(kv[1], kv[2]) /\ WithinLog
  \/ \E key \in Keys : DeleteCall(key) /\ WithinLog
  \/ ClearCall
  \/ CompressCall
  \/ CloseStart \/ CloseJoin \/ CloseFinal
  \/ Crash
  \/ LoopStart \/ LoopAutoCompress \/ LoopTimeout \/ LoopStop \/ LoopCompress
  \/ DumpSnapshot \/ DumpWrite \/ DumpJournal
  \/ SwapAndReopen
  \/ \E n \in 1..3 : CrashInSwap(n)

\* ------------------------------------------------------------- lock file
\* Time is counted in ticks of 10 ms.  Two processes use the same path.
Procs == {1, 2}

\* "Duration::from_millis(20)": the longest wait between two iterations.
IdleDuration == 2

\* The absent lock directory, and Lockfile::mtime = None.
NoLock == 0 - 1

\* Lockfile::new and a process that has not opened the store.
ClosedProc(last, refused) ==
  [st |-> "Closed", chk |-> "None", mtime |-> NoLock, last_refresh |-> 0,
   last_iter |-> 0, alive |-> FALSE, last |-> last, refused |-> refused]

LockIdle == now = 0 /\ lockdir = NoLock /\ proc = [p \in Procs |-> ClosedProc("none", FALSE)]

\* Lockfile::check with a comparison that never finds the lock stale.
check_never_active(dir, t) ==
  IF dir = NoLock THEN "NoLock" ELSE "Stale"

\* Lockfile::check at time t of the lock directory dir.
check(dir, t) ==
  IF dir = NoLock THEN "NoLock"
  ELSE IF t - dir > StaleInterval THEN "Stale"
  ELSE "Active"

\* Lockfile::create_lock: create_dir_all leaves an existing directory as
\* it is; the mtime found is remembered.
create_lock(dir, t) == IF dir = NoLock THEN t ELSE dir

\* Lockfile::update_lock: the mtime of the directory is set to the time t.
update_lock(dir, t) == t

\* A release that leaves the directory in place.
release_never(dir, mtime) == dir

\* Lockfile::release: the directory is removed when its mtime is ours.
release(dir, mtime) ==
  IF mtime # NoLock /\ dir # NoLock /\ dir = mtime THEN NoLock ELSE dir

\* RsonlDB<Closed>::open, Lockfile::lock: the check.
LockCheck(p) ==
  /\ proc[p].st = "Closed"
  /\ proc' = [proc EXCEPT ![p].st = "Checked", ![p].chk = check(lockdir, now)]
  /\ UNCHANGED <<now, lockdir, store_vars, hist_vars, api_vars, index>>

\* Lockfile::lock: what follows the check.  An active lock fails the open
\* with LockBusy; otherwise the directory is created or touched.  Touching
\* a directory that has been removed since the check fails the open.
LockAcquire(p) ==
  /\ proc[p].st = "Checked"
  /\ LET c == proc[p].chk IN
     IF c = "Active"
     THEN /\ proc' = [proc EXCEPT ![p] = ClosedProc("LockBusy", TRUE)]
          /\ UNCHANGED lockdir
     ELSE IF c = "Stale" /\ lockdir = NoLock
     THEN /\ proc' = [proc EXCEPT ![p] = ClosedProc("IoError", proc[p].refused)]
          /\ UNCHANGED lockdir
     ELSE /\ lockdir' = (IF c = "NoLock" THEN create_lock(lockdir, now)
                                         ELSE update_lock(lockdir, now))
          /\ proc' = [proc EXCEPT ![p].st = "Acquired", ![p].mtime = lockdir']
  /\ UNCHANGED <<now, store_vars, hist_vars, api_vars, index>>

\* RsonlDB<Closed>::open spawns the persistence loop, which notes the time
\* of its start as the last refresh; the store is Opened.
LockSpawn(p) ==
  /\ proc[p].st = "Acquired"
  /\ proc' = [proc EXCEPT ![p].st = "Opened", ![p].alive = TRUE,
                          ![p].last_refresh = now, ![p].last_iter = now,
                          ![p].last = "opened"]
  /\ UNCHANGED <<now, lockdir, store_vars, hist_vars, api_vars, index>>

\* One iteration of the persistence loop: Lockfile::update once the stale
\* interval has passed since the last refresh.  A lock whose mtime is not
\* ours fails the loop, which drops the Lockfile.
LockLoopIter(p) ==
  /\ proc[p].st = "Opened" /\ proc[p].alive /\ proc[p].last_iter < now
  /\ IF now - proc[p].last_refresh >= StaleInterval
     THEN LET c == check(lockdir, now) IN
          IF c = "Active" /\ proc[p].mtime # NoLock /\ proc[p].mtime # lockdir
          THEN /\ lockdir' = release(lockdir, proc[p].mtime)
               /\ proc' = [proc EXCEPT ![p].alive = FALSE, ![p].mtime = NoLock]
          ELSE /\ lockdir' = (IF c = "NoLock" THEN create_lock(lockdir, now)
                                              ELSE update_lock(lockdir, now))
               /\ proc' = [proc EXCEPT ![p].mtime = lockdir',
                                       ![p].last_refresh = now,
                                       ![p].last_iter = now]
     ELSE /\ proc' = [proc EXCEPT ![p].last_iter = now]
          /\ UNCHANGED lockdir
  /\ UNCHANGED <<now, store_vars, hist_vars, api_vars, index>>

\* RsonlDB<Opened>::close and RsonlDB<HalfClosed>::close: the loop is
\* stopped and joined, and the Lockfile it owned is dropped.
LockClose(p) ==
  /\ proc[p].st = "Opened"
  /\ lockdir' = (IF proc[p].alive THEN release(lockdir, proc[p].mtime) ELSE lockdir)
  /\ proc' = [proc EXCEPT ![p] = ClosedProc("closed", proc[p].refused)]
  /\ UNCHANGED <<now, store_vars, hist_vars, api_vars, index>>

\* The process dies; nothing is dropped.
Kill(p) ==
  /\ proc[p].st # "Closed"
  /\ proc' = [proc EXCEPT ![p] = ClosedProc("killed", proc[p].refused)]
  /\ UNCHANGED <<now, lockdir, store_vars, hist_vars, api_vars, index>>

\* Time passes; a running loop waits at most IdleDuration for its next
\* iteration.
Tick ==
  /\ now < MaxTime
  /\ \A p \in Procs :
       (proc[p].st = "Opened" /\ proc[p].alive) =>
         now + 1 - proc[p].last_iter <= IdleDuration
  /\ now' = now + 1
  /\ UNCHANGED <<lockdir, proc, store_vars, hist_vars, api_vars, index>>

LockNext ==
  \/ \E p \in Procs : LockCheck(p)
  \/ \E p \in Procs : LockAcquire(p)
  \/ \E p \in Procs : LockSpawn(p)
  \/ \E p \in Procs : LockLoopIter(p)
  \/ \E p \in Procs : LockClose(p)
  \/ \E p \in Procs : Kill(p)
  \/ Tick

\* The callers of dump() and compress().
Callers == {1, 2}

\* The calls that create a Notify stop after MaxNotify of them.
MaxNotify == 2

\* No call in flight.  A call has an operation, a position, the Notify it
\* waits on and a result.
NoCall == [op |-> "none", st |-> "idle", on |-> 0, own |-> FALSE, res |-> "none", seen |-> {}]

ApiIdle == index = index_clear /\ call = [c \in Callers |-> NoCall] /\ udump = [c \in Callers |-> NoFile] /\ served = {} /\ notifies = 0 /\ script = <<>>

Init == StoreInit /\ LockIdle /\ ApiIdle

\* The same initial state with the options taken from the set O.
FreshStore(O) ==
  /\ r = "Closed" /\ opts \in O
  /\ entries = <<>> /\ journal = <<>>
  /\ main = NoFile /\ bak = NoFile /\ dumpf = NoFile
  /\ pc = "none" /\ rx = <<>>
  /\ uncompressed_size = 0 /\ changes_since_compress = 0
  /\ just_opened = FALSE /\ done = 0 /\ last_write = 0
  /\ dump_buf = <<>> /\ journal_len = 0
  /\ is_closing = FALSE /\ compress_promise = 0
  /\ start_map = {} /\ mut_during = FALSE /\ late_mut = FALSE
  /\ crash_pc = "none" /\ last_op = "none"
  /\ touched = {} /\ cleared = FALSE /\ squashed = FALSE
  /\ LockIdle
  /\ index = index_clear /\ call = [c \in Callers |-> NoCall]
  /\ udump = [c \in Callers |-> NoFile] /\ served = {} /\ notifies = 0

Spec == Init /\ [][Next]_vars

\* The map of a store that is opened and then only mutated, over three keys.
OrderKeys == {"a", "b", "c"}

OrderNext ==
  \/ Open
  \/ \E key \in OrderKeys, value \in {1, 2} : SetCall(key, value)
  \/ \E key \in OrderKeys : DeleteCall(key)
  \/ ClearCall

OrderSpec == Init /\ [][OrderNext]_vars

LockSpec == Init /\ [][LockNext]_vars

\* ------------------------------------------------ the facade's state checks
\* The operations of JsonlDB.
FacadeOps ==
  {"open", "half_close", "close", "dump", "compress", "set", "delete", "clear",
   "get", "has", "size", "keys", "get_many", "import", "export"}

\* as_closed_mut / as_half_closed_mut / as_opened_mut: the state an
\* operation is defined on.
required_state(op) ==
  IF op = "open" THEN "Closed"
  ELSE IF op = "close" THEN "HalfClosed"
  ELSE "Opened"

\* An error mapping that answers NotOpen to every misuse.
misuse_error_not_open(op) == "NotOpen"

\* ok_or(JsonlDBError::..): the error of an operation called on another state.
misuse_error(op) ==
  IF op = "open" THEN "AlreadyOpen"
  ELSE IF op = "close" THEN "NotStopped"
  ELSE "NotOpen"

\* A caller invokes op on a store that is not in the state op is defined
\* on: the call fails at the facade's state check.
Misuse(c, op) ==
  /\ r # required_state(op)
  /\ call[c].st = "idle"
  /\ call' = [call EXCEPT ![c] = [NoCall EXCEPT !.op = op, !.res = misuse_error(op)]]
  /\ UNCHANGED <<store_vars, hist_vars, lock_vars, index, udump, served, notifies, script>>

LifecycleNext ==
  \/ Open
  \/ SetCall("a", 1) /\ WithinLog
  \/ DeleteCall("a") /\ WithinLog
  \/ ClearCall
  \/ CloseStart \/ CloseJoin \/ CloseFinal
  \/ LoopStart \/ LoopTimeout \/ LoopStop
  \/ \E c \in Callers, op \in FacadeOps : Misuse(c, op)

LifecycleSpec == Init /\ [][LifecycleNext]_vars

\* The store is opened once, on a path that holds no file yet.
OpenFresh == ~main.ex /\ ~bak.ex /\ ~dumpf.ex /\ Open

\* ---------------------------------------------------- the index of objects
\* The values that are set: a primitive and the three objects.
IndexValues == {1, 10, 11, 12}

\* JsonlDB::set_object -> RsonlDB<Opened>::set_reference, called with the
\* index keys of the object.
set_reference(key, val) ==
  /\ r = "Opened"
  /\ index' = add_many(index, key, index_keys(val))
  /\ LET st == insert(Storage(entries, journal), key, val)
     IN entries' = st.entries /\ journal' = st.journal
  /\ Mutated({key}, FALSE)
  /\ UNCHANGED <<r, opts, main, bak, dumpf, pc, rx, uncompressed_size,
                 changes_since_compress, just_opened, last_write, done, dump_buf, journal_len,
                 is_closing, compress_promise, lock_vars>>

IndexNext ==
  \/ OpenFresh
  \/ \E key \in Keys, val \in IndexValues \ {1} : set_reference(key, val) /\ UNCHANGED api_vars
  \/ \E key \in Keys : SetCall(key, 1)
  \/ \E key \in Keys : DeleteCall(key)
  \/ ClearCall

IndexSpec == Init /\ [][IndexNext]_vars

\* ------------------------------------------------- open on a given log
\* The longest log that open is given.
MaxLines == 3

\* The lines of such a log.
LogLines ==
  {format_line("a", 1), format_line("a", 2), format_line("b", 1), Line("D", "a", 0),
   EmptyLine, BadLine, NonUtf8Line}

Logs == UNION {[1..n -> LogLines] : n \in 0..MaxLines}

\* A closed store whose live log holds any of the logs, with either
\* setting of ignore_read_errors.
ParseInit ==
  /\ r = "Closed"
  /\ opts \in {[DefaultOptions EXCEPT !.ignore_read_errors = b] : b \in BOOLEAN}
  /\ \E data \in Logs : main = File(TRUE, data)
  /\ entries = <<>> /\ journal = <<>>
  /\ bak = NoFile /\ dumpf = NoFile
  /\ pc = "none" /\ rx = <<>>
  /\ uncompressed_size = 0 /\ changes_since_compress = 0
  /\ just_opened = FALSE /\ done = 0 /\ last_write = 0
  /\ dump_buf = <<>> /\ journal_len = 0
  /\ is_closing = FALSE /\ compress_promise = 0
  /\ start_map = {} /\ mut_during = FALSE /\ late_mut = FALSE
  /\ crash_pc = "none" /\ last_op = "none"
  /\ touched = {} /\ cleared = FALSE /\ squashed = FALSE
  /\ LockIdle /\ ApiIdle

ParseSpec == ParseInit /\ [][Open]_vars

\* --------------------------------------------- dump() and compress() calls
DumpCmd(d) == [cmd |-> "Dump", done |-> d]

Returned(c, op, res) ==
  [call EXCEPT ![c] = [NoCall EXCEPT !.op = op, !.res = res]]

Started(c, op, st, on, own) ==
  [call EXCEPT ![c] = [op |-> op, st |-> st, on |-> on, own |-> own, res |-> "none",
                       seen |-> {AsMap(entries)}]]

\* Every call in flight has seen the map as it is after a mutation.
Seen(m) ==
  [c \in Callers |-> IF call[c].st = "idle" THEN call[c]
                     ELSE [call[c] EXCEPT !.seen = @ \cup {m}]]

\* done.notify_waiters(): the callers whose Notified future exists on this
\* Notify are woken; nothing is stored for a later notified().
notify_waiters(d) ==
  [c \in Callers |-> IF call[c].st = "waiting" /\ call[c].on = d
                     THEN [call[c] EXCEPT !.st = "woken"]
                     ELSE call[c]]

\* The caller whose dump() made the Notify d: its file is the one written.
Caller(d) == CHOOSE c \in Callers : call[c].op = "dump" /\ call[c].own /\ call[c].on = d

\* RsonlDB<Opened>::dump up to the end of send_command.
DumpCall(c) ==
  /\ r = "Opened" /\ call[c].st = "idle"
  /\ IF is_closing
     THEN call' = Returned(c, "dump", "Ok") /\ UNCHANGED <<rx, notifies>>
     ELSE /\ notifies < MaxNotify
          /\ notifies' = notifies + 1
          /\ IF ChannelClosed
             THEN call' = Returned(c, "dump", "SendError") /\ UNCHANGED rx
             ELSE /\ Len(rx) < ChannelCapacity
                  /\ rx' = Append(rx, DumpCmd(notifies'))
                  /\ call' = Started(c, "dump", "sent", notifies', TRUE)
  /\ UNCHANGED <<r, opts, entries, journal, main, bak, dumpf, pc, uncompressed_size,
                 changes_since_compress, just_opened, last_write, done, dump_buf, journal_len,
                 is_closing, compress_promise, hist_vars, lock_vars, index, udump, served, script>>

\* RsonlDB<Opened>::compress up to the end of send_command, or, for a call
\* that finds a promise, up to the creation of its Notified future.  op is
\* the operation of the facade that calls it: compress or half_close.
compress(c, op) ==
  /\ r = "Opened" /\ call[c].st = "idle"
  /\ IF is_closing
     THEN /\ call' = Returned(c, op, "Ok")
          /\ UNCHANGED <<rx, compress_promise, notifies>>
     ELSE IF compress_promise # 0
     THEN /\ call' = Started(c, op, "waiting", compress_promise, FALSE)
          /\ UNCHANGED <<rx, compress_promise, notifies>>
     ELSE /\ notifies < MaxNotify
          /\ notifies' = notifies + 1
          /\ compress_promise' = notifies'
          /\ IF ChannelClosed
             THEN call' = Returned(c, op, "SendError") /\ UNCHANGED rx
             ELSE /\ Len(rx) < ChannelCapacity
                  /\ rx' = Append(rx, CompressCmd(notifies'))
                  /\ call' = Started(c, op, "sent", notifies', TRUE)
  /\ UNCHANGED <<r, opts, entries, journal, main, bak, dumpf, pc, uncompressed_size,
                 changes_since_compress, just_opened, last_write, done, dump_buf, journal_len,
                 is_closing, hist_vars, lock_vars, index, udump, served, script>>

\* JsonlDB::compress
CompressCallBy(c) == compress(c, "compress")

\* "notify.notified()": the Notified future of a caller that has sent its
\* command is created.
Notified(c) ==
  /\ call[c].st = "sent"
  /\ call' = [call EXCEPT ![c].st = "waiting"]
  /\ UNCHANGED <<store_vars, hist_vars, lock_vars, index, udump, served, notifies, script>>

\* The woken caller of dump() or compress() returns Ok; the caller that
\* made the promise unsets it.
CallReturn(c) ==
  /\ call[c].st = "woken" /\ call[c].op # "half_close"
  /\ call' = Returned(c, call[c].op, "Ok")
  /\ compress_promise' =
       IF call[c].op = "compress" /\ call[c].own THEN 0 ELSE compress_promise
  /\ UNCHANGED <<r, opts, entries, journal, main, bak, dumpf, pc, rx,
                 uncompressed_size, changes_since_compress, just_opened, last_write, done,
                 dump_buf, journal_len, is_closing, hist_vars, lock_vars, index, udump,
                 served, notifies, script>>

\* One iteration that receives Dump { filename, done }: dump() creates and
\* truncates the file, renders the map and remembers the journal length.
LoopDump ==
  /\ r = "Opened" /\ pc = "top" /\ rx # <<>> /\ recv(rx).cmd.cmd = "Dump"
  /\ \E elapsed_c \in BOOLEAN : ~compress_due(elapsed_c)
  /\ udump' = [udump EXCEPT ![Caller(recv(rx).cmd.done)] = File(TRUE, <<>>)]
  /\ dump_buf' = dump_render(entries)
  /\ journal_len' = Len(journal)
  /\ done' = recv(rx).cmd.done
  /\ rx' = recv(rx).rest
  /\ just_opened' = FALSE
  /\ pc' = "u_snap"
  /\ UNCHANGED <<r, opts, entries, journal, main, bak, dumpf, uncompressed_size,
                 changes_since_compress, last_write, is_closing, compress_promise,
                 hist_vars, lock_vars, index, call, served, notifies, script>>

\* dump(.., false): the render is written, the journal is cloned and what
\* follows its first journal_len lines is appended; then notify_waiters.
LoopDumpDone ==
  /\ r = "Opened" /\ pc = "u_snap"
  /\ LET strs == skip(drain_journal(Storage(entries, journal)), journal_len)
     IN udump' = [udump EXCEPT
                    ![Caller(done)] = File(TRUE, write_lines(Written(dump_buf, 0, 0), strs).data)]
  /\ journal' = journal_after_dump(journal, FALSE)
  /\ call' = notify_waiters(done)
  /\ served' = served \cup {done}
  /\ done' = 0 /\ dump_buf' = <<>> /\ journal_len' = 0
  /\ pc' = "top"
  /\ UNCHANGED <<r, opts, entries, main, bak, dumpf, rx, uncompressed_size,
                 changes_since_compress, just_opened, last_write, is_closing, compress_promise,
                 hist_vars, lock_vars, index, notifies, script>>

\* The end of a compaction: "if let Some(done) = done { done.notify_waiters() }".
CompactionDone ==
  /\ CompactionSwap
  /\ call' = IF done # 0 THEN notify_waiters(done) ELSE call
  /\ served' = IF done # 0 THEN served \cup {done} ELSE served
  /\ UNCHANGED <<compress_promise, udump, notifies, script>>

\* The mutations that callers make while calls are in flight.
ApiInputs == {<<"a", 1>>}

ApiSet(key, value) ==
  /\ set_native(key, value) /\ WithinLog
  /\ call' = Seen(AsMap(entries')) /\ UNCHANGED <<udump, served, notifies, script>>

ApiNext ==
  \/ OpenFresh
  \/ \E kv \in ApiInputs : ApiSet(kv[1], kv[2])
  \/ \E c \in Callers : DumpCall(c)
  \/ \E c \in Callers : CompressCallBy(c)
  \/ \E c \in Callers : Notified(c)
  \/ \E c \in Callers : CallReturn(c)
  \/ CloseStart \/ CloseJoin \/ CloseFinal
  \/ LoopStart \/ LoopAutoCompress \/ LoopTimeout \/ LoopStop \/ LoopCompress
  \/ LoopDump \/ LoopDumpDone
  \/ DumpSnapshot \/ DumpWrite \/ DumpJournal
  \/ CompactionDone

ApiSpec == Init /\ [][ApiNext]_vars

\* An I/O error or a failed refresh of the lock makes persistence_thread
\* return Err: the spawned task unwraps it and panics, the receiver and the
\* commands still in the channel are dropped.
LoopFail ==
  /\ r = "Opened"
  /\ pc \in {"start", "top", "c_drained", "c_snap", "c_dumped", "u_snap"}
  /\ pc' = "failed"
  /\ rx' = <<>> /\ done' = 0
  /\ UNCHANGED <<r, opts, entries, journal, main, bak, dumpf, uncompressed_size,
                 changes_since_compress, just_opened, last_write, dump_buf, journal_len,
                 is_closing, compress_promise, hist_vars, lock_vars, index, api_vars>>

\* half_close() after the loop has failed: is_closing is set, then
\* stop_and_join unwraps the failed send of Stop.
ClosePanic(c) ==
  /\ r = "Opened" /\ ~is_closing /\ pc = "failed" /\ call[c].st = "idle"
  /\ is_closing' = TRUE
  /\ call' = Returned(c, "half_close", "panic")
  /\ UNCHANGED <<r, opts, entries, journal, main, bak, dumpf, pc, rx, uncompressed_size,
                 changes_since_compress, just_opened, last_write, done, dump_buf, journal_len,
                 compress_promise, hist_vars, lock_vars, index, udump, served, notifies, script>>

FailNext ==
  \/ ApiNext
  \/ LoopFail
  \/ \E c \in Callers : ClosePanic(c)

FailSpec == Init /\ [][FailNext]_vars

\* The steps of the persistence task.
LoopStep ==
  \/ LoopStart \/ LoopAutoCompress \/ LoopTimeout \/ LoopStop \/ LoopCompress
  \/ LoopDump \/ LoopDumpDone
  \/ DumpSnapshot \/ DumpWrite \/ DumpJournal
  \/ CompactionDone

\* The tokio runtime keeps polling the persistence task and the tasks of
\* the callers: a task that can make a step is not left out forever.
ApiFairSpec ==
  /\ ApiSpec
  /\ WF_vars(LoopStep)
  /\ \A c \in Callers : WF_vars(Notified(c)) /\ WF_vars(CallReturn(c))

\* ------------------------------------------------------------ the import
RECURSIVE import_json_map(_, _)
\* import_json_map on the storage: every pair is inserted into the map and
\* a Set of its key is pushed to the journal.
import_json_map(st, kvs) ==
  IF kvs = <<>> THEN st
  ELSE import_json_map(Storage(im_insert(st.entries, Head(kvs).k, Head(kvs).v),
                               Append(st.journal, Set(Head(kvs).k))),
                       Tail(kvs))

\* JsonlDB::import_json_string -> RsonlDB<Opened>::import_json_string of a
\* JSON object, given as its pairs in the order of the parsed map.
import_json_string(kvs) ==
  /\ r = "Opened"
  /\ LET st == import_json_map(Storage(entries, journal), kvs)
     IN entries' = st.entries /\ journal' = st.journal
  /\ index' = add_entries_checked(index, kvs)
  /\ Mutated({kvs[i].k : i \in 1..Len(kvs)}, FALSE)
  /\ UNCHANGED <<r, opts, main, bak, dumpf, pc, rx, uncompressed_size,
                 changes_since_compress, just_opened, last_write, done, dump_buf, journal_len,
                 is_closing, compress_promise, lock_vars, api_vars>>

\* The JSON objects that are imported.
ImportMaps == {<<Slot("a", 2)>>, <<Slot("a", 1), Slot("b", 1)>>}

\* Sets, deletes, clears and imports, with the idle writes of the loop.
ImportNext ==
  \/ OpenFresh
  \/ \E kv \in SetInputs : SetCall(kv[1], kv[2]) /\ WithinLog
  \/ \E key \in Keys : DeleteCall(key) /\ WithinLog
  \/ ClearCall
  \/ \E kvs \in ImportMaps : import_json_string(kvs) /\ WithinLog
  \/ LoopStart \/ LoopTimeout

ImportSpec == Init /\ [][ImportNext]_vars

\* ------------------------------------------------------ scripted callers
\* The operations of a script.
SetOp(k, v) == [op |-> "set", k |-> k, v |-> v]
SetObjectOp(k, v) == [op |-> "set_object", k |-> k, v |-> v]
DeleteOp(k) == [op |-> "delete", k |-> k, v |-> 0]

\* The caller issues the next operation of its script.
ScriptStep ==
  /\ script # <<>>
  /\ LET o == Head(script)
     IN IF o.op = "set" THEN set_native(o.k, o.v)
        ELSE IF o.op = "set_object" THEN set_reference(o.k, o.v)
        ELSE delete(o.k)
  /\ script' = Tail(script)
  /\ UNCHANGED <<call, udump, served, notifies>>

\* The caller issues the next operation of its script and keeps what a
\* delete returns.
ScriptStepResult ==
  /\ script # <<>>
  /\ LET o == Head(script)
     IN IF o.op = "set" THEN set_native(o.k, o.v) /\ UNCHANGED call
        ELSE IF o.op = "set_object" THEN set_reference(o.k, o.v) /\ UNCHANGED call
        ELSE /\ delete(o.k)
             /\ call' = Returned(1, "delete",
                                  IF has(entries, o.k) THEN "true" ELSE "false")
  /\ script' = Tail(script)
  /\ UNCHANGED <<udump, served, notifies>>

\* The scripts of up to three sets and deletes on two keys.
DeleteOps == {SetOp("a", 1), SetObjectOp("b", 12), DeleteOp("a"), DeleteOp("b")}
DeleteScripts == UNION {[1..n -> DeleteOps] : n \in 1..3}

DeleteInit == FreshStore({DefaultOptions}) /\ script \in DeleteScripts

\* A script of sets and deletes, with the idle writes of the loop.
DeleteNext ==
  \/ OpenFresh
  \/ ScriptStepResult
  \/ LoopStart \/ LoopTimeout

DeleteSpec == DeleteInit /\ [][DeleteNext]_vars

\* half_close(), called when the script is done.
ScriptClose == script = <<>> /\ CloseStart

\* set("a", 1), set("b", {"t":"x"}), delete("a"); 12 is the object.
RoundTripScript == <<SetOp("a", 1), SetObjectOp("b", 12), DeleteOp("a")>>

RoundTripInit ==
  FreshStore({DefaultOptions, ThrottledOptions}) /\ script = RoundTripScript

\* The script, close, and a reopen, with the persistence loop.
RoundTripNext ==
  \/ Open
  \/ ScriptStep
  \/ ScriptClose \/ CloseJoin \/ CloseFinal
  \/ LoopStart \/ LoopTimeout \/ LoopStop

RoundTripSpec == RoundTripInit /\ [][RoundTripNext]_vars

\* set("a", i) for i = 1..5.
UpsertScript == [i \in 1..5 |-> SetOp("a", i)]

SizeInit == FreshStore({SizeOptions}) /\ script = UpsertScript

\* The five upserts with the persistence loop and its compactions.
SizeNext ==
  \/ OpenFresh
  \/ ScriptStep
  \/ LoopStart \/ LoopAutoCompress \/ LoopTimeout
  \/ DumpSnapshot \/ DumpWrite \/ DumpJournal
  \/ CompactionDone

SizeSpec == SizeInit /\ [][SizeNext]_vars

\* The loop keeps iterating and the caller goes through its script.
SizeFairSpec == SizeSpec /\ WF_vars(LoopStep) /\ WF_vars(ScriptStep)

\* ------------------------------------- automatic compaction and the channel
\* size_factor = 2 with size_factor_min_size = 0, and size_factor = 1.
EmptyMapOptions == Opts(FALSE, 2, 0, 0, 1, 0, Unbounded)
FactorOneOptions == Opts(FALSE, 1, 0, 0, 1, 0, Unbounded)

StarveInit ==
  FreshStore({EmptyMapOptions, FactorOneOptions, AutoOptions}) /\ script = <<>>

\* A store with automatic compaction that is mutated and closed.
StarveNext ==
  \/ OpenFresh
  \/ \E kv \in SetInputs : SetCall(kv[1], kv[2]) /\ WithinLog
  \/ CloseStart \/ CloseJoin
  \/ LoopStart \/ LoopAutoCompress \/ LoopTimeout \/ LoopStop
  \/ DumpSnapshot \/ DumpWrite \/ DumpJournal
  \/ CompactionDone

StarveSpec == StarveInit /\ [][StarveNext]_vars

\* The runtime keeps polling the persistence task.
StarveFairSpec == StarveSpec /\ WF_vars(LoopStep)

\* ------------------------------------------------ an open that fails
\* The logs the owner's open finds: one it can parse and one it cannot.
OpenLogs == {<<format_line("a", 1)>>, <<format_line("a", 1), BadLine>>}

FailedOpenInit == ParseInit /\ main.data \in OpenLogs

\* RsonlDB<Closed>::open of the owner after "lock.lock()?": recovery, the
\* opening of the file and parse_entries.
OwnerOpen ==
  /\ proc[1].st = "Acquired" /\ last_op # "open"
  /\ Open

\* An error after "lock.lock()?" leaves open with "?": the Lockfile, a
\* local of open, is dropped.  The owner's error is that of its Open; the
\* other process' store is not modelled and its open may fail at will.
OpenFailed(p) ==
  /\ proc[p].st = "Acquired"
  /\ (p = 1) => (r = "Closed" /\ last_op = "open")
  /\ lockdir' = release(lockdir, proc[p].mtime)
  /\ proc' = [proc EXCEPT ![p] = ClosedProc("OpenFailed", proc[p].refused)]
  /\ last_op' = IF p = 1 THEN "none" ELSE last_op
  /\ UNCHANGED <<now, store_vars, start_map, mut_during, late_mut, crash_pc,
                 touched, cleared, squashed, api_vars, index>>

\* The owner's open has succeeded: the loop is spawned.
OwnerSpawn ==
  /\ r = "Opened" /\ pc = "start"
  /\ LockSpawn(1)

FailedOpenNext ==
  \/ \E p \in Procs : LockCheck(p)
  \/ \E p \in Procs : LockAcquire(p)
  \/ OwnerOpen
  \/ \E p \in Procs : OpenFailed(p)
  \/ OwnerSpawn \/ LockSpawn(2)
  \/ \E p \in Procs : LockLoopIter(p)
  \/ LockClose(2)
  \/ Tick

FailedOpenSpec == FailedOpenInit /\ [][FailedOpenNext]_vars

\* ------------------------------------------- the two steps of the release
\* Lockfile::release, first step: "fs::metadata(&self.path)" and the
\* comparison of the mtime found with the one recorded.
ReleaseCheck(p) ==
  /\ proc[p].st = "Opened" /\ proc[p].alive
  /\ proc' = [proc EXCEPT ![p].st = "Releasing",
                          ![p].chk = IF proc[p].mtime # NoLock /\ lockdir # NoLock
                                          /\ lockdir = proc[p].mtime
                                       THEN "Ours" ELSE "NotOurs"]
  /\ UNCHANGED <<now, lockdir, store_vars, hist_vars, api_vars, index>>

\* Lockfile::release, second step: "fs::remove_dir(&self.path).ok()" when
\* the comparison found our mtime, then "self.mtime = None".
ReleaseRemove(p) ==
  /\ proc[p].st = "Releasing"
  /\ lockdir' = IF proc[p].chk = "Ours" THEN NoLock ELSE lockdir
  /\ proc' = [proc EXCEPT ![p] = ClosedProc("closed", proc[p].refused)]
  /\ UNCHANGED <<now, store_vars, hist_vars, api_vars, index>>

\* Time passes; the two system calls of a release are less than a tick
\* apart.
ReleaseTick ==
  /\ \A p \in Procs : proc[p].st # "Releasing"
  /\ Tick

\* Two processes that lock, refresh and release the same path.
ReleaseNext ==
  \/ \E p \in Procs : LockCheck(p)
  \/ \E p \in Procs : LockAcquire(p)
  \/ \E p \in Procs : LockSpawn(p)
  \/ \E p \in Procs : LockLoopIter(p)
  \/ \E p \in Procs : ReleaseCheck(p)
  \/ \E p \in Procs : ReleaseRemove(p)
  \/ ReleaseTick

ReleaseSpec == Init /\ [][ReleaseNext]_vars

\* ------------------------------------------- the loop's refresh of the lock
\* The process that owns the store and the process that takes its lock.
Owner == 1
Rival == 2

\* A Lockfile::update that does not compare the mtimes.
update_unchecked(dir, mtime, t) ==
  [ok |-> TRUE, dir |-> IF dir = NoLock THEN create_lock(dir, t) ELSE update_lock(dir, t)]

\* Lockfile::update at time t by a holder that recorded mtime: an active
\* lock with another mtime is an error, otherwise the directory is created
\* or touched.
update(dir, mtime, t) ==
  LET c == check(dir, t) IN
  IF c = "Active" /\ mtime # NoLock /\ mtime # dir
  THEN [ok |-> FALSE, dir |-> dir]
  ELSE [ok |-> TRUE,
        dir |-> IF c = "NoLock" THEN create_lock(dir, t) ELSE update_lock(dir, t)]

\* "now - last_lockfile_refresh >= lock.get_stale_interval_ms()"
RefreshDue == now - proc[Owner].last_refresh >= StaleInterval

\* The top of an iteration when the refresh is due: "lock.update()?".  A
\* failed update ends persistence_thread: the receiver and the Lockfile
\* are dropped.
LoopRefresh ==
  /\ r = "Opened" /\ pc = "top" /\ proc[Owner].st = "Opened" /\ RefreshDue
  /\ LET u == update(lockdir, proc[Owner].mtime, now) IN
     IF u.ok
     THEN /\ lockdir' = u.dir
          /\ proc' = [proc EXCEPT ![Owner].mtime = u.dir,
                                  ![Owner].last_refresh = now,
                                  ![Owner].last_iter = now]
          /\ UNCHANGED <<pc, rx, done>>
     ELSE /\ lockdir' = release(lockdir, proc[Owner].mtime)
          /\ proc' = [proc EXCEPT ![Owner].alive = FALSE, ![Owner].mtime = NoLock]
          /\ pc' = "failed"
          /\ rx' = <<>> /\ done' = 0
  /\ UNCHANGED <<r, opts, entries, journal, main, bak, dumpf, uncompressed_size,
                 changes_since_compress, just_opened, last_write, dump_buf, journal_len,
                 is_closing, compress_promise, hist_vars, now, index, api_vars>>

\* The rest of an iteration, and the steps of a compaction, of the loop
\* that the owner has spawned.
AfterRefresh(A) ==
  /\ proc[Owner].st = "Opened"
  /\ (pc = "top") => ~RefreshDue
  /\ A

\* Time passes while the loop may be held up.
Delay ==
  /\ now < MaxTime
  /\ now' = now + 1
  /\ UNCHANGED <<lockdir, proc, store_vars, hist_vars, api_vars, index>>

GuardInit == FreshStore({AutoOptions}) /\ script = <<>>

\* The owner locks, opens and writes the store; the rival locks the same
\* path once it finds the lock stale.
GuardNext ==
  \/ \E p \in Procs : LockCheck(p)
  \/ \E p \in Procs : LockAcquire(p)
  \/ (proc[Owner].st = "Acquired" /\ OpenFresh)
  \/ (r = "Opened" /\ pc = "start" /\ LockSpawn(Owner))
  \/ \E kv \in ApiInputs : SetCall(kv[1], kv[2]) /\ WithinLog
  \/ LoopRefresh
  \/ AfterRefresh(LoopStart) \/ AfterRefresh(LoopAutoCompress)
  \/ AfterRefresh(LoopTimeout)
  \/ AfterRefresh(DumpSnapshot) \/ AfterRefresh(DumpWrite)
  \/ AfterRefresh(DumpJournal) \/ AfterRefresh(CompactionDone)
  \/ Delay

GuardSpec == GuardInit /\ [][GuardNext]_vars

\* ------------------------------------------------- the throttled write
\* "Instant::now().duration_since(last_write).as_millis() >= throttle_interval"
ThrottleElapsed == now - last_write >= opts.throttle_ms

\* One iteration that runs into the idle timeout, at the time now.
LoopTimeoutAt ==
  /\ r = "Opened" /\ pc = "top" /\ rx = <<>>
  /\ ~compress_due(FALSE)
  /\ IdleOrStop(FALSE, ThrottleElapsed)
  /\ just_opened' = FALSE
  /\ UNCHANGED rx

\* One iteration that receives Stop, at the time now.
LoopStopAt ==
  /\ r = "Opened" /\ pc = "top" /\ rx # <<>> /\ recv(rx).cmd.cmd = "Stop"
  /\ ~compress_due(FALSE)
  /\ IdleOrStop(TRUE, ThrottleElapsed)
  /\ just_opened' = FALSE
  /\ rx' = recv(rx).rest

ThrottleScript == <<SetOp("a", 1), SetOp("b", 1), SetOp("a", 2)>>

ThrottleInit ==
  FreshStore({DefaultOptions, ThrottledOptions}) /\ script = ThrottleScript

\* A caller that sets three values and closes, while time passes.
ThrottleNext ==
  \/ OpenFresh
  \/ ScriptStep
  \/ ScriptClose \/ CloseJoin
  \/ LoopStart \/ LoopTimeoutAt \/ LoopStopAt
  \/ Delay

ThrottleSpec == ThrottleInit /\ [][ThrottleNext]_vars

\* ------------------------------------------------- close with on_close
\* JsonlDB::half_close -> RsonlDB<Opened>::close with
\* auto_compress.on_close: "self.compress().await?" up to the end of
\* send_command or to the creation of the Notified future.  A failed send
\* fails the close.
CloseCompress(c) ==
  /\ opts.on_close /\ ~is_closing
  /\ \A d \in Callers : call[d].op = "half_close" => call[d].st = "idle"
  /\ compress(c, "half_close")

\* compress() has returned to close: the promise is unset by the call that
\* made it, is_closing is set and stop_and_join sends Stop; a failed send
\* is unwrapped.
CloseStop(c) ==
  /\ r = "Opened" /\ call[c].op = "half_close" /\ call[c].st = "woken"
  /\ compress_promise' = IF call[c].own THEN 0 ELSE compress_promise
  /\ is_closing' = TRUE
  /\ IF ChannelClosed
     THEN call' = Returned(c, "half_close", "panic") /\ UNCHANGED rx
     ELSE /\ Len(rx) < ChannelCapacity
          /\ rx' = Append(rx, StopCmd)
          /\ call' = [call EXCEPT ![c].st = "joining"]
  /\ UNCHANGED <<r, opts, entries, journal, main, bak, dumpf, pc, uncompressed_size,
                 changes_since_compress, just_opened, last_write, done, dump_buf,
                 journal_len, hist_vars, lock_vars, index, udump, served, notifies, script>>

\* stop_and_join: "thread.await" returns once the loop has exited, and the
\* store is HalfClosed; the panic of a failed loop is a JoinError, which
\* fails the close.
CloseJoined(c) ==
  /\ r = "Opened" /\ call[c].op = "half_close" /\ call[c].st = "joining"
  /\ pc \in {"exited", "failed"}
  /\ IF pc = "exited"
     THEN r' = "HalfClosed" /\ call' = Returned(c, "half_close", "Ok")
     ELSE r' = r /\ call' = Returned(c, "half_close", "JoinError")
  /\ UNCHANGED <<opts, entries, journal, main, bak, dumpf, pc, rx, uncompressed_size,
                 changes_since_compress, just_opened, last_write, done, dump_buf,
                 journal_len, is_closing, compress_promise, hist_vars, lock_vars, index,
                 udump, served, notifies, script>>

\* A store that compresses on close.
OnCloseOptions == [DefaultOptions EXCEPT !.on_close = TRUE]

CloseInit == FreshStore({OnCloseOptions}) /\ script = <<>>

CloseNext ==
  \/ OpenFresh
  \/ \E kv \in ApiInputs : ApiSet(kv[1], kv[2])
  \/ \E c \in Callers : CompressCallBy(c)
  \/ \E c \in Callers : Notified(c)
  \/ \E c \in Callers : CallReturn(c)
  \/ \E c \in Callers : CloseCompress(c)
  \/ \E c \in Callers : CloseStop(c)
  \/ \E c \in Callers : CloseJoined(c)
  \/ CloseFinal
  \/ LoopStart \/ LoopTimeout \/ LoopStop \/ LoopCompress
  \/ DumpSnapshot \/ DumpWrite \/ DumpJournal
  \/ CompactionDone
  \/ LoopFail

CloseSpec == CloseInit /\ [][CloseNext]_vars

\* The runtime keeps polling the persistence task and the tasks of the
\* callers; a failure of the loop is not bound to happen.
CloseFairSpec ==
  /\ CloseSpec
  /\ WF_vars(LoopStep)
  /\ \A c \in Callers : WF_vars(Notified(c)) /\ WF_vars(CallReturn(c))
  /\ \A c \in Callers : WF_vars(CloseStop(c)) /\ WF_vars(CloseJoined(c))


\* ----------------------------------------------------------- properties
\* The map a process gets that opens the file set fs: recovery, then the
\* replay of the main file.
ReopenedMap(fs) ==
  AsMap(parse_entries(open_create(try_recover_db_files(fs).main).data,
                      opts.ignore_read_errors).entries)

FileSet == Files(main, bak, dumpf)

RECURSIVE apply_journal(_, _, _)
\* The journal jn applied to the map durable: Set(k) takes the value k has
\* in the current map cur, Delete(k) removes k, Clear empties the map.
apply_journal(durable, jn, cur) ==
  IF jn = <<>> THEN durable
  ELSE LET j == Head(jn)
           next == IF j.t = "Set"
                   THEN IF contains_key(cur, j.k)
                        THEN im_insert(durable, j.k, cur[get_index_of(cur, j.k)].v)
                        ELSE durable
                   ELSE IF j.t = "Delete" THEN im_remove(durable, j.k)
                   ELSE <<>>
       IN apply_journal(next, Tail(jn), cur)

\* C1 (replay fidelity): once the store is half-closed after a close during
\* which no mutation was issued, opening the file set yields the map that
\* was in memory.
C1_ReplayFidelity ==
  (r = "HalfClosed" /\ ~late_mut) => ReopenedMap(FileSet) = AsMap(entries)

\* C4 (journal equivalence, J1): between two iterations of the persistence
\* loop of an open store, the journal applied to the replay of the live
\* log is the map in memory.
C4_JournalEquivalence ==
  (r = "Opened" /\ pc = "top") =>
    AsMap(apply_journal(parse_entries(main.data, opts.ignore_read_errors).entries,
                        journal, entries)) = AsMap(entries)

\* The file recovery reinstates as the main log, or "new" when it creates one.
recover_choice(fs) ==
  IF file_ok(fs.main) THEN "main"
  ELSE IF file_ok(fs.bak) THEN "bak"
  ELSE IF file_ok(fs.dump) THEN "dump"
  ELSE "new"

\* The file sets a crash can leave behind at the current step of a
\* compaction: the present one and, once the dump is complete, those after
\* each of the two renames and the removal of the backup.
CrashFileSets ==
  IF pc = "c_dumped" THEN {swap_stage(FileSet, n) : n \in 0..3} ELSE {FileSet}

\* C2 (crash recovery): a crash right after any step of a compaction during
\* which no mutation was issued, followed by recovery and a reopen, yields
\* the map that was in memory when the compaction started.
C2_CrashRecovery ==
  (r = "Opened" /\ pc \in {"c_drained", "c_dumped"} /\ ~mut_during) =>
    \A fs \in CrashFileSets : ReopenedMap(fs) = start_map

\* C3 (compaction atomicity): at every instant of a compaction the file
\* recovery would reinstate is never a partially written dump, and while the
\* old log or its backup is the reinstated file its replay is the map the
\* compaction started with.
C3_CompactionAtomicity ==
  (r = "Opened" /\ pc \in CompactionPcs) =>
    \A fs \in CrashFileSets :
      /\ recover_choice(fs) = "dump" =>
           ~(pc = "c_snap" /\ Len(dumpf.data) < Len(dump_buf))
      /\ (recover_choice(fs) \in {"main", "bak", "new"} /\ fs.dump = dumpf) =>
           ReopenedMap(fs) = start_map

\* The records a drain of the present journal produces.
Drained == drain_journal(Storage(entries, journal))

\* The drained records are at most one per key touched since the last
\* clear plus one for a clear, no two are for the same key, and each is
\* the final state of its key.
CoalescedDrain ==
  /\ Len(Drained) <= Cardinality(touched) + (IF cleared THEN 1 ELSE 0)
  /\ \A i \in 1..Len(Drained) :
       LET l == Drained[i] IN
         /\ l.t = "U" => /\ contains_key(entries, l.k)
                         /\ entries[get_index_of(entries, l.k)].v = l.v
         /\ l.t = "D" => ~contains_key(entries, l.k)
         /\ l.t = "E" => cleared
         /\ \A j \in 1..Len(Drained) : (j # i /\ l.t # "E") => Drained[j].k # l.k

\* C8 (coalescing, J2): every drain of the journal of an open store yields
\* coalesced records, and the idle write appends exactly these to the log.
C8_Coalescing ==
  [][(r = "Opened" /\ journal # <<>> /\ journal' = <<>> /\ r' = "Opened") =>
       /\ CoalescedDrain
       /\ (pc = "top" /\ pc' = "top") =>
            main'.data = write_lines(Written(main.data, 0, 0), Drained).data]_vars

\* C8 witness: after a round in which a pending entry of key a was
\* replaced, the idle write has appended the single record a=2.
C8_Witness ==
  /\ r = "Opened" /\ pc = "top" /\ last_op = "write" /\ journal = <<>>
  /\ squashed /\ touched = {"a"} /\ ~cleared
  /\ main.data = <<Line("U", "a", 2)>>

\* C9 (compaction result): after a compaction during which no mutation was
\* issued, and until the next mutation, the log holds one upsert per key
\* in the order of keys(), and neither a backup nor a dump file exists.
C9_CompactionResult ==
  (r = "Opened" /\ pc = "top" /\ last_op = "compress" /\ ~mut_during
   /\ journal = <<>>) =>
    /\ main.ex /\ Len(main.data) = Len(all_keys(entries))
    /\ \A i \in 1..Len(main.data) :
         /\ main.data[i].t = "U"
         /\ main.data[i].k = all_keys(entries)[i]
         /\ main.data[i].v = entries[i].v
    /\ ~bak.ex /\ ~dumpf.ex

\* C9 witness: a compaction without mutations has left a log of two keys.
C9_Witness ==
  /\ r = "Opened" /\ pc = "top" /\ last_op = "compress" /\ ~mut_during
  /\ journal = <<>> /\ Len(entries) = 2 /\ Len(main.data) = 2

\* C10 (insertion order): a set, delete or clear leaves the keys that stay
\* in the map in their relative order, and places a new key after them.
C10_InsertionOrder ==
  [][(r = "Opened" /\ r' = "Opened") =>
       LET old == all_keys(entries)
           new == all_keys(entries')
           kept == Filter(old, Range(new))
       IN /\ Filter(new, Range(old)) = kept
          /\ SubSeq(new, 1, Len(kept)) = kept]_vars

\* Process p has the store open and the lock directory is its own and fresh.
HoldsFresh(p) ==
  /\ proc[p].st = "Opened" /\ proc[p].alive
  /\ lockdir # NoLock /\ lockdir = proc[p].mtime
  /\ now - lockdir <= StaleInterval

\* C5 (lock exclusion): while a process has the store open with a fresh
\* lock directory, the check of another process's open finds the lock
\* active, that open then fails with LockBusy, and neither step touches the
\* directory; the close of the holder removes the directory, and an open
\* that finds no directory acquires the lock.
C5_LockExclusion ==
  [][\A p, q \in Procs : (p # q) =>
       /\ (HoldsFresh(p) /\ proc[q].st = "Closed" /\ proc'[q].st = "Checked") =>
            proc'[q].chk = "Active" /\ lockdir' = lockdir
       /\ (proc[q].st = "Checked" /\ proc[q].chk = "Active"
           /\ proc'[q].st = "Closed" /\ proc'[q].last # "killed") =>
            proc'[q].last = "LockBusy" /\ lockdir' = lockdir
       /\ (proc[q].st = "Checked" /\ proc[q].chk = "Active") =>
            proc'[q].st \in {"Checked", "Closed"}
       /\ (HoldsFresh(p) /\ proc'[p].st = "Closed" /\ proc'[p].last = "closed") =>
            lockdir' = NoLock
       /\ (lockdir = NoLock /\ proc[q].st = "Closed" /\ proc'[q].st = "Checked") =>
            proc'[q].chk = "NoLock"
       /\ (proc[q].st = "Checked" /\ proc[q].chk = "NoLock"
           /\ proc'[q] # proc[q] /\ proc'[q].last # "killed") =>
            proc'[q].st = "Acquired" /\ lockdir' # NoLock
                                     /\ proc'[q].mtime = lockdir']_vars

\* C5 witness: process 2 was refused with LockBusy and, after process 1 has
\* closed the store, has opened it.
C5_Witness ==
  /\ proc[1].st = "Closed" /\ proc[1].last = "closed"
  /\ proc[2].st = "Opened" /\ proc[2].refused /\ proc[2].alive
  /\ lockdir = proc[2].mtime

\* C6 (heartbeat): while a process has the store open and its loop keeps
\* iterating, its lock directory never appears stale, that is, older than
\* the stale interval, to another process.
C6_Heartbeat ==
  \A p \in Procs :
    (proc[p].st = "Opened" /\ proc[p].alive /\ lockdir # NoLock
     /\ lockdir = proc[p].mtime) =>
      check(lockdir, now) # "Stale"

\* C7 (exclusive acquisition): at most one process has acquired the lock.
C7_ExclusiveAcquisition ==
  Cardinality({p \in Procs : proc[p].st \in {"Acquired", "Opened"}}) <= 1

\* C11 (recovery preference): an open keeps a valid main and deletes the
\* backup and the dump; otherwise a valid backup becomes main and the dump
\* is deleted; otherwise a valid dump becomes main and the backup is
\* deleted; otherwise main is created empty; and the map of the opened
\* store is the replay of that main.
C11_RecoveryPreference ==
  [][(r = "Closed" /\ r' = "Opened") =>
       LET mv == main.ex /\ Len(main.data) > 0
           bv == bak.ex /\ Len(bak.data) > 0
           dv == dumpf.ex /\ Len(dumpf.data) > 0
       IN /\ mv => main' = main /\ ~bak'.ex /\ ~dumpf'.ex
          /\ (~mv /\ bv) => main' = bak /\ ~bak'.ex /\ ~dumpf'.ex
          /\ (~mv /\ ~bv /\ dv) => main' = dumpf /\ ~bak'.ex /\ ~dumpf'.ex
          /\ (~mv /\ ~bv /\ ~dv) => main'.ex /\ main'.data = <<>>
          /\ AsMap(entries') =
               AsMap(parse_entries(main'.data, opts.ignore_read_errors).entries)]_vars

\* C11 witness: after a crash between the two renames of a compaction, when
\* main was missing and both the backup and the dump existed, the store has
\* reopened with the map the compaction started with.
C11_Witness ==
  /\ r = "Opened" /\ pc = "start" /\ crash_pc = "c_ren1" /\ journal = <<>>
  /\ ~mut_during /\ start_map # {} /\ AsMap(entries) = start_map
  /\ main.ex /\ ~bak.ex /\ ~dumpf.ex

MisuseErrors == {"AlreadyOpen", "NotOpen", "NotStopped"}

C13_NoLostWakeup ==
  \A c \in Callers : (call[c].st # "idle") ~> (call[c].st = "idle")

\* The file data holds a snapshot of the map m: an upsert record for every
\* key of m, and its replay is m.
SnapshotOf(data, m) ==
  /\ \A kv \in m : \E i \in 1..Len(data) : data[i] = format_line(kv[1], kv[2])
  /\ AsMap(parse_entries(data, FALSE).entries) = m

\* Caller c's call of op returns Ok in this step.
ReturnsOk(c, op) ==
  /\ call'[c] # call[c]
  /\ call'[c].st = "idle" /\ call'[c].op = op /\ call'[c].res = "Ok"

\* C14 (dump blocks until written): when dump(path) returns Ok, the file at
\* path exists and holds a snapshot of the map as it was at some moment
\* during the call.
C14_DumpWritten ==
  [][\A c \in Callers :
       ReturnsOk(c, "dump") =>
         /\ udump[c].ex
         /\ \E m \in (IF call[c].st = "idle" THEN {AsMap(entries)} ELSE call[c].seen) :
              SnapshotOf(udump[c].data, m)]_vars

\* The Compress command with Notify d is in the channel or being executed.
InFlight(d) == (\E i \in 1..Len(rx) : rx[i] = CompressCmd(d)) \/ done = d

\* C15 (compress is deduplicated): a compress() called while another
\* caller's compress is pending sends no command, and when it returns Ok
\* the compaction of the first call has completed.
C15_CompressDedup ==
  [][\A c \in Callers :
       /\ (call[c].st = "idle" /\ call'[c] # call[c] /\ call'[c].op = "compress"
             /\ compress_promise # 0) =>
            /\ rx' = rx
            /\ call'[c].st = "idle" => ~InFlight(compress_promise)
       /\ (ReturnsOk(c, "compress") /\ call[c].st = "woken" /\ ~call[c].own) =>
            ~InFlight(call[c].on)]_vars

\* C16 (FIFO, Stop cancels nothing): when the loop has exited on Stop,
\* every Dump or Compress command that was sent (all of them were sent
\* before Stop) has been executed to completion and its Notify signalled,
\* and nothing is left in the channel.
C16_FifoBeforeStop ==
  pc = "exited" => rx = <<>> /\ done = 0 /\ \A d \in 1..notifies : d \in served

\* C16 witness: the loop has exited after a dump and a compress whose
\* callers were woken and have not returned yet.
C16_Witness ==
  /\ pc = "exited" /\ served = {1, 2}
  /\ call[1].op = "dump" /\ call[1].st = "woken"
  /\ call[2].op = "compress" /\ call[2].st = "woken"
  /\ udump[1].ex /\ udump[1].data # <<>>

\* C17 (loop failure is surfaced): a dump(), compress() or half_close()
\* called after the loop has failed returns at once with an error; it
\* does not start to wait, panic or return Ok.
C17_FailureSurfaced ==
  [][\A c \in Callers :
       (pc = "failed" /\ call[c].st = "idle" /\ call'[c] # call[c]
          /\ call'[c].op \in {"dump", "compress", "half_close"}) =>
         call'[c].st = "idle" /\ call'[c].res \in {"SendError", "JoinError"}]_vars

\* The numbers of the lines of data that are not records.
InvalidLines(data) == {i \in 1..Len(data) : data[i].t \notin {"U", "D"}}

\* The lines of data that are records, in file order.
ValidLines(data) == SelectSeq(data, LAMBDA l : l.t \in {"U", "D"})

RECURSIVE Replay(_)
\* The map a log of records stands for: the last line applied to the
\* replay of the lines before it.
Replay(data) ==
  IF data = <<>> THEN <<>>
  ELSE LET l == data[Len(data)]
           before == Replay(SubSeq(data, 1, Len(data) - 1))
       IN IF l.t = "U" THEN im_insert(before, l.k, l.v) ELSE im_remove(before, l.k)

\* C18 (parse tolerance): open on a log with a line that is no record
\* succeeds when ignore_read_errors is set, with the replay of the other
\* lines as its map; when it is not set open fails with a parse error that
\* carries the 1-based number of the first such line, and the store stays
\* Closed.
C18_ParseTolerance ==
  [][(r = "Closed" /\ InvalidLines(main.data) # {}) =>
       IF opts.ignore_read_errors
       THEN r' = "Opened" /\ entries' = Replay(ValidLines(main.data))
       ELSE /\ r' = "Closed"
            /\ LET res == parse_entries(main.data, FALSE)
               IN /\ res.kind = "Parse"
                  /\ res.err \in InvalidLines(main.data)
                  /\ \A i \in InvalidLines(main.data) : res.err <= i]_vars

\* C19 (index consistency): on an open store, for every configured
\* pointer p, string s and key k, the bucket "p=s" contains k exactly when
\* the current value of k is an object whose pointer p resolves to s.
C19_IndexConsistency ==
  r = "Opened" =>
    \A p \in IndexPaths, s \in IndexStrings, k \in Keys :
      k \in get_keys(index, index_key(p, s))
        <=> (contains_key(entries, k) /\ pointer(p, entries[get_index_of(entries, k)].v) = s)

\* The compaction at its last step was started in the state the previous
\* compaction left: nothing was written or mutated since.
Recompaction == last_op \in {"recompress", "recompress_mut"}

\* The compaction in progress ends here and leaves the log, the map with
\* its order and the journal as they are, and no backup or dump file.
EndsUnchanged ==
  /\ main'.ex /\ main'.data = main.data
  /\ entries' = entries /\ journal' = <<>>
  /\ ~bak'.ex /\ ~dumpf'.ex

\* C20 as stated (compaction idempotence): a compaction that follows
\* another with no mutation in between, and none during itself, leaves the
\* observable state the first one left.
C20_CompactionIdempotence ==
  [][(r = "Opened" /\ pc = "c_dumped" /\ pc' = "top" /\ Recompaction /\ ~mut_during)
       => EndsUnchanged]_vars

\* C20 amended: the same, when no mutation was issued during the first
\* compaction either.
C20_IdempotenceAfterQuietCompaction ==
  [][(r = "Opened" /\ pc = "c_dumped" /\ pc' = "top" /\ last_op = "recompress"
        /\ ~mut_during) => EndsUnchanged]_vars

\* C20 witness: the second of two compactions with no mutation during or
\* between them has written its dump of a map of two keys, equal to the log.
C20_Witness ==
  /\ r = "Opened" /\ pc = "c_dumped" /\ last_op = "recompress" /\ ~mut_during
  /\ Len(entries) = 2 /\ journal = <<>>
  /\ dumpf.ex /\ dumpf.data = main.data /\ Len(main.data) = 2

\* The log data holds exactly one upsert record per key of the map es.
OneUpsertPerKey(data, es) ==
  /\ Len(data) = Len(es)
  /\ \A i \in 1..Len(data) : data[i].t = "U"
  /\ {<<data[i].k, data[i].v>> : i \in 1..Len(data)} = AsMap(es)

\* C21 (compress on close): with auto_compress.on_close, when close
\* succeeds the main log holds exactly one upsert record per key of the
\* final map and neither a backup nor a dump file exists; and when the loop
\* fails while close waits for its compaction, close returns an error and
\* the store stays Opened.
C21_CompressOnClose ==
  /\ [][(opts.on_close /\ r = "Opened" /\ r' = "HalfClosed") =>
          /\ OneUpsertPerKey(main'.data, entries')
          /\ ~bak'.ex /\ ~dumpf'.ex]_vars
  /\ \A c \in Callers :
       (call[c].op = "half_close" /\ call[c].st \in {"sent", "waiting"} /\ pc = "failed")
         ~> (call[c].st = "idle" /\ call[c].res \in {"SendError", "JoinError"}
               /\ r = "Opened")

\* The state after the script and a close: closed, or open again.
\* The store has been opened again on the log the round trip left.
Reopened == r = "Opened" /\ script = <<>> /\ last_op = "open" /\ main.data # <<>>

\* The state after the script and a close: closed, or open again.
AfterRoundTrip == script = <<>> /\ (r \in {"HalfClosed", "Closed"} \/ Reopened)

C24_NoMutationLost ==
  /\ (r = "Opened" /\ pc = "c_dumped") =>
       AsMap(apply_journal(parse_entries(dumpf.data, opts.ignore_read_errors).entries,
                           journal, entries)) = AsMap(entries)
  /\ (r = "Opened" /\ pc = "top" /\ journal = <<>>) =>
       AsMap(parse_entries(main.data, opts.ignore_read_errors).entries) = AsMap(entries)

\* C25 (no accepted mutation lost on clean shutdown): when close has
\* succeeded, opening the file set yields the map that was in memory,
\* which holds every mutation the facade accepted, those issued while
\* close was waiting for the loop included.
C25_NoLossOnShutdown ==
  r = "HalfClosed" => ReopenedMap(FileSet) = AsMap(entries)

\* C26 (no starvation by automatic compaction): once close has sent Stop,
\* the loop eventually receives it and exits, whatever the auto_compress
\* options.
C26_NoStarvation ==
  (r = "Opened" /\ is_closing) ~> (pc = "exited")

\* The file set fs, seen after the first n steps of the swap of the present
\* compaction: a backup is the live log as the drain left it, or, before the
\* first rename, one of the files in pre; it is gone after its removal; the
\* live log is absent only between the two renames, when the backup and the
\* finished dump both exist.
BackupComplete(fs, n, pre) ==
  /\ fs.bak.ex => \/ (n \in {1, 2} /\ fs.bak = main)
                  \/ (n = 0 /\ fs.bak \in pre)
  /\ ~fs.main.ex => (n = 1 /\ fs.bak.ex /\ fs.dump.ex /\ fs.dump = dumpf)

\* The steps of a compaction, with pre the backups that may exist when it
\* starts: it starts by draining the journal into the live log; until the
\* swap the live log and the backup are not touched again; the dump is
\* finished, with the whole render written and then the lines of the
\* journal, before the swap; and every step of the swap, whether the
\* process survives it or dies in it, leaves a complete backup.
BackupSteps(pre) ==
  /\ (r = "Opened" /\ pc = "top" /\ pc' = "c_drained") =>
       /\ bak \in pre \cup {NoFile} /\ bak' = bak /\ journal' = <<>>
       /\ main' = File(TRUE, write_lines(Written(main.data, 0, 0), Drained).data)
  /\ (r = "Opened" /\ pc \in CompactionPcs /\ pc' \in CompactionPcs) =>
       main' = main /\ bak' = bak /\ bak \in pre \cup {NoFile}
  /\ (r = "Opened" /\ pc = "c_snap" /\ pc' = "c_dumped") =>
       /\ dumpf.data = dump_buf /\ dumpf'.ex
       /\ dumpf'.data =
            write_lines(Written(dump_buf, 0, 0), skip(Drained, journal_len)).data
  /\ (r = "Opened" /\ pc = "c_dumped") =>
       /\ \A n \in 0..3 : BackupComplete(swap_stage(FileSet, n), n, pre)
       /\ \E n \in 0..3 : Files(main', bak', dumpf') = swap_stage(FileSet, n)
       /\ (pc' = "top") => (main' = dumpf /\ ~bak'.ex /\ ~dumpf'.ex)

\* C27 (backup completeness): whenever the backup exists during a
\* compaction it is the drained live log, and the live log is missing only
\* between the two renames, next to the backup and the finished dump.
C27_BackupCompleteness ==
  [][BackupSteps({})]_vars

\* C27, amended: an empty backup left by a crash in an earlier compaction
\* of an empty store may exist until the first rename replaces it; every
\* other backup during a compaction is the drained live log, and the live
\* log is missing only between the two renames, next to the backup and the
\* finished dump.
C27_BackupCompletenessFromRename ==
  [][BackupSteps({File(TRUE, <<>>)})]_vars

\* C27 witness: the process died between the two renames of a compaction
\* of a non-empty store: the live log is missing, the backup and the dump
\* exist and hold records.
C27_Witness ==
  /\ r = "Closed" /\ crash_pc = "c_ren1"
  /\ ~main.ex /\ bak.ex /\ bak.data # <<>> /\ dumpf.ex /\ dumpf.data # <<>>

\* The owner's recorded mtime is not that of the fresh lock directory.
Compromised ==
  check(lockdir, now) = "Active"
    /\ proc[Owner].mtime # NoLock /\ proc[Owner].mtime # lockdir

\* C28 (a compromised lock stops the writer): when the refresh at the top
\* of an iteration is due and finds a fresh lock directory with another
\* mtime than the owner recorded, the only step of the loop is its failure,
\* which leaves the three files as they are and starts no compaction; a
\* failed loop never makes another step and the files stay as they are.
C28_CompromisedLockStopsWriter ==
  [][/\ (r = "Opened" /\ pc = "top" /\ proc[Owner].st = "Opened"
          /\ RefreshDue /\ Compromised) =>
          /\ main' = main /\ bak' = bak /\ dumpf' = dumpf
          /\ pc' \in {"top", "failed"}
          /\ (proc'[Owner] # proc[Owner]) =>
               (pc' = "failed" /\ ~proc'[Owner].alive /\ lockdir' = lockdir)
     /\ (pc = "failed") =>
          (pc' = "failed" /\ main' = main /\ bak' = bak /\ dumpf' = dumpf)
    ]_vars

\* C28 witness: the loop has failed at its refresh while a record waited
\* in the journal and the rival holds the lock.
C28_Witness ==
  /\ r = "Opened" /\ pc = "failed" /\ journal # <<>>
  /\ proc[Rival].st \in {"Acquired", "Opened"} /\ lockdir = proc[Rival].mtime
  /\ ~proc[Owner].alive

\* C29 (release only removes one's own lock): a step of a process whose
\* recorded mtime is not the mtime of the lock directory, because it never
\* acquired the lock or because another process took the lock over, does
\* not remove the directory.
C29_ReleaseOnlyOwnLock ==
  [][\A p \in Procs :
       (proc'[p] # proc[p] /\ lockdir # NoLock /\ proc[p].mtime # lockdir)
         => lockdir' # NoLock]_vars

\* C30 (write throttling): an idle wake or a Stop drains the journal and
\* appends it to the log exactly when the journal is not empty and Stop was
\* received, or throttle_interval_ms have passed since the last write, or
\* the journal holds more than max_buffered_commands entries; otherwise
\* the log and the journal stay as they are.
C30_WriteThrottling ==
  [][LET stop == (pc' = "exited")
         wake == /\ r = "Opened" /\ pc = "top" /\ pc' \in {"top", "exited"}
                 /\ script' = script /\ now' = now /\ is_closing' = is_closing
         due == Len(journal) > 0
                  /\ (stop \/ now - last_write >= opts.throttle_ms
                           \/ Len(journal) > opts.max_buffered_commands)
     IN  wake =>
           IF due
           THEN /\ journal' = <<>> /\ last_write' = now
                /\ main' = File(TRUE, main.data \o Drained)
           ELSE main' = main /\ journal' = journal /\ last_write' = last_write
    ]_vars

\* C30 witness: under a throttle of two ticks and a buffer of one command,
\* within a tick of the loop's start, two buffered records have been
\* written because they exceeded the buffer, and the Stop has flushed the
\* third although the throttle interval had not passed.
C30_Witness ==
  /\ opts = ThrottledOptions /\ pc = "exited" /\ now <= 1
  /\ Len(main.data) = 3 /\ journal = <<>>

\* The position of the last Clear of a journal, 0 without one, and the
\* entries that follow it.
LastClear(jn) ==
  LET cs == {i \in 1..Len(jn) : jn[i].t = "Clear"}
  IN IF cs = {} THEN 0 ELSE CHOOSE i \in cs : \A j \in cs : j <= i
AfterClear(jn) == SubSeq(jn, LastClear(jn) + 1, Len(jn))

\* C31 (clear truncates): a write of the loop (idle write, Stop, step 1 of a
\* compaction) that drains a journal with a Clear leaves in the live log
\* exactly the records of the entries after the Clear, none of them an
\* empty line, and both counters equal their number.
C31_ClearTruncates ==
  [][(/\ r = "Opened" /\ r' = "Opened" /\ pc = "top"
      /\ pc' \in {"top", "exited", "c_drained"}
      /\ LastClear(journal) > 0 /\ journal' = <<>>) =>
       /\ main'.data = render_journal(entries, AfterClear(journal))
       /\ \A i \in 1..Len(main'.data) : main'.data[i] # EmptyLine
       /\ uncompressed_size' = Len(AfterClear(journal))
       /\ changes_since_compress' = Len(AfterClear(journal))
    ]_vars

\* C31 witness: the loop has written a journal with a Clear and a Set
\* after it, and the log holds the one record of that Set.
C31_Witness ==
  /\ r = "Opened" /\ cleared /\ last_op = "write" /\ journal = <<>>
  /\ Len(main.data) = 1 /\ uncompressed_size = 1
  /\ AsMap(entries) = AsMap(parse_entries(main.data, FALSE).entries)
  /\ Len(entries) = 1

\* C32 (uncompressed_size tracks the log): whenever the loop is at the top
\* of an iteration, uncompressed_size is the number of records in the live
\* log.
C32_SizeTracksLog ==
  (r = "Opened" /\ pc = "top") => uncompressed_size = Len(main.data)

\* C33 (a failed open has no lasting lock): an open that fails after it
\* acquired the lock removes the lock directory it holds, forgets its mtime
\* and leaves the store Closed; and a check finds the lock active only
\* while another process is opening or has opened the store, never because
\* of an attempt that failed.
C33_FailedOpenReleasesLock ==
  [][\A p \in Procs :
       /\ (proc[p].st = "Acquired" /\ proc'[p].st = "Closed"
              /\ proc'[p].last = "OpenFailed") =>
            /\ (p = 1) => r' = "Closed"
            /\ proc'[p].mtime = NoLock
            /\ (lockdir = proc[p].mtime) => lockdir' = NoLock
       /\ (proc[p].st = "Closed" /\ proc'[p].st = "Checked"
              /\ proc'[p].chk = "Active") =>
            \E q \in Procs \ {p} : proc[q].st \in {"Acquired", "Opened"}
    ]_vars

\* C33 witness: the owner's open has failed on a log it cannot parse, the
\* store is Closed, nobody holds the lock, and the owner's next open finds
\* no lock.
C33_Witness ==
  /\ r = "Closed" /\ BadLine \in {main.data[i] : i \in 1..Len(main.data)}
  /\ proc[1].last = "OpenFailed" /\ proc[1].st = "Checked"
  /\ proc[1].chk = "NoLock" /\ proc[2].st = "Closed" /\ lockdir = NoLock

\* C34 (dump leaves the store untouched): the two steps in which the loop
\* processes a Dump command change neither the journal, nor the map, nor
\* the live log, nor uncompressed_size and changes_since_compress, so the
\* lines a later drain writes are those that were pending.
C34_DumpLeavesStore ==
  [][(r = "Opened" /\ r' = "Opened"
       /\ ((pc = "top" /\ pc' = "u_snap") \/ (pc = "u_snap" /\ pc' = "top"))) =>
       /\ journal' = journal /\ entries' = entries /\ main' = main
       /\ uncompressed_size' = uncompressed_size
       /\ changes_since_compress' = changes_since_compress
       /\ render_journal(entries', journal') = Drained
    ]_vars

\* C34 witness: a dump has been written and has notified its caller while
\* an entry is still pending in the journal, and the dump holds its record.
C34_Witness ==
  /\ r = "Opened" /\ pc = "top" /\ journal # <<>> /\ main.data = <<>>
  /\ \E c \in Callers :
       /\ call[c].op = "dump" /\ call[c].st = "woken"
       /\ udump[c].ex /\ udump[c].data # <<>>

\* C35 (deleting an absent key is a no-op): a delete returns true exactly
\* when its key was in the map; then the key is gone from the map; when the
\* key was absent the map, the journal and the index are left as they are.
C35_DeleteAbsentIsNoOp ==
  [][(script # <<>> /\ script' = Tail(script) /\ Head(script).op = "delete") =>
       LET key == Head(script).k
           present == \E i \in 1..Len(entries) : entries[i].k = key
       IN /\ call'[1].op = "delete"
          /\ call'[1].res = (IF present THEN "true" ELSE "false")
          /\ \A i \in 1..Len(entries') : entries'[i].k # key
          /\ ~present => (entries' = entries /\ journal' = journal /\ index' = index)
    ]_vars

\* C35 witness: a delete of a key that a pending Set had put in the map and
\* an earlier delete had removed again has returned false, and the journal
\* holds the one Delete of the first.
C35_Witness ==
  /\ r = "Opened" /\ script = <<>> /\ entries = <<>>
  /\ call[1].op = "delete" /\ call[1].res = "false"
  /\ \E k \in Keys : journal = <<Delete(k)>>

\* C36 (journal/map agreement): the journal of an open store holds at most
\* one Set or Delete per key, every Set is of a key in the map and every
\* Delete of a key not in the map.
C36_JournalMapAgreement ==
  (r = "Opened") =>
    /\ \A i, j \in 1..Len(journal) :
         (i # j /\ journal[i].t # "Clear" /\ journal[j].t # "Clear")
           => journal[i].k # journal[j].k
    /\ \A i \in 1..Len(journal) :
         /\ journal[i].t = "Set" => contains_key(entries, journal[i].k)
         /\ journal[i].t = "Delete" => ~contains_key(entries, journal[i].k)

\* C37 (Clear is first): the journal holds at most one Clear, and a Clear
\* in the journal is its first entry.
C37_ClearIsFirst ==
  \A i \in 1..Len(journal) : journal[i].t = "Clear" => i = 1

\* C37 witness: an open store whose journal holds a Clear followed by the
\* entry of a later mutation.
C37_Witness ==
  /\ r = "Opened" /\ Len(journal) = 2
  /\ journal[1] = Clear /\ journal[2] = Set("a")
  /\ entries = <<Slot("a", 2)>>

\* C38 (compress bookkeeping): while no call of compress() is in flight --
\* every caller has returned, with Ok or with the error of the send -- the
\* promise of a pending compress is unset.
C38_PromiseResetOnReturn ==
  (r = "Opened" /\ \A c \in Callers : call[c].st = "idle") => compress_promise = 0

====
